---- MODULE Spec2Model ----
(***************************************************************************)
(* A model of the reference resolver of libopenapi (package index):        *)
(* Resolver.Resolve, Resolver.CheckForCircularReferences, visitIndex,      *)
(* visitIndexWithoutDamagingIt, Resolver.VisitReference,                   *)
(* Resolver.isInfiniteCircularDependency and Resolver.extractRelatives.    *)
(*                                                                         *)
(* The recursion of the Go code is run by an explicit call stack: every    *)
(* frame is one activation of one of the functions above, and every action *)
(* is one step of the activation on top of the stack.  YAML nodes live in  *)
(* a heap (node id -> Kind, Value, Content); a Reference is named by an id *)
(* and carries Definition, FullDefinition and Node; the mutable flags of   *)
(* the References (Seen, Resolved, Circular, ParentNodeSchemaType) are     *)
(* variables.  Strings are sequences of tokens, so that strings.Split,     *)
(* strings.HasPrefix and the filepath functions compute on them.           *)
(***************************************************************************)
EXTENDS Naturals, Integers, Sequences, FiniteSets, TLC

(***************************************************************************)
(* Bounds of the model.                                                    *)
(***************************************************************************)
\* number of Resolve()/CheckForCircularReferences() calls made on one Index
MaxRuns == 2
\* depth of nested isInfiniteCircularDependency activations the model follows
\* before it reports the goroutine stack as exhausted
MaxIcdDepth == 6
\* the length of a journey beyond which extractRelatives gives up: the code
\* has the fixed depth 100, the model a depth that a chain of a few schemas
\* exceeds
MaxJourney == 3
\* number of files in the local filesystems of one Rolodex
MaxFiles == 2
\* number of IndexTheRolodex() calls made on one Rolodex
MaxIndexings == 2
\* number of Open() calls made on one Rolodex
MaxOpens == 2
\* number of times rolodexFile.Index() parses the content of a file
MaxBuilds == 3
\* number of rolodexFile.Index() calls that run concurrently
MaxIndexCalls == 2

(***************************************************************************)
(* Strings: a string is a sequence of tokens.  "#/" is the token the code  *)
(* splits on, "/" the path separator, "http://h" a scheme with its host.   *)
(***************************************************************************)
Nil == "nil"
EmptyStr == <<>>
RefKey == <<"$ref">>
HashSlash == "#/"
Slash == "/"
HttpHost == "http://h"
Cwd == <<"/", "cwd">>

RECURSIVE IndexOfToken(_, _, _)
\* position of the first tok in s at or after position k, 0 if there is none
IndexOfToken(s, tok, k) ==
    IF k > Len(s) THEN 0
    ELSE IF s[k] = tok THEN k
    ELSE IndexOfToken(s, tok, k + 1)

RECURSIVE SplitOn(_, _)
\* strings.Split(s, tok)
SplitOn(s, tok) ==
    LET p == IndexOfToken(s, tok, 1)
    IN  IF p = 0 THEN <<s>>
        ELSE <<SubSeq(s, 1, p - 1)>> \o SplitOn(SubSeq(s, p + 1, Len(s)), tok)

\* strings.HasPrefix(s, "http")
HasPrefixHttp(s) == Len(s) > 0 /\ s[1] = HttpHost

\* strings.HasPrefix(s, "#/")
HasPrefixHash(s) == Len(s) > 0 /\ s[1] = HashSlash

\* filepath.IsAbs(s)
IsAbs(s) == Len(s) > 0 /\ s[1] = Slash

RECURSIVE LastIndexOfToken(_, _, _)
LastIndexOfToken(s, tok, k) ==
    IF k = 0 THEN 0
    ELSE IF s[k] = tok THEN k
    ELSE LastIndexOfToken(s, tok, k - 1)

\* filepath.Dir(p): all but the last element of p; "." for a bare file name
\* and "/" for a file of the root directory
FilepathDir(p) ==
    LET q == LastIndexOfToken(p, Slash, Len(p))
    IN  IF q = 0 THEN <<".">>
        ELSE IF q = 1 THEN <<Slash>>
        ELSE SubSeq(p, 1, q - 1)

\* filepath.Join(dir, rel), cleaned
FilepathJoin(dir, rel) ==
    IF rel = EmptyStr THEN dir
    ELSE IF dir = <<".">> THEN rel
    ELSE IF dir = <<Slash>> THEN <<Slash>> \o rel
    ELSE dir \o <<Slash>> \o rel

\* filepath.Abs(p): a relative path is joined to the working directory
FilepathAbs(p) ==
    IF IsAbs(p) THEN p
    ELSE IF p = <<".">> THEN Cwd
    ELSE Cwd \o <<Slash>> \o p

\* url.Parse(s): scheme and host, path, fragment
UrlParse(s) ==
    LET parts == SplitOn(s, HashSlash)
        loc   == parts[1]
        p     == IndexOfToken(s, HashSlash, 1)
    IN  [Host     |-> IF HasPrefixHttp(loc) THEN <<loc[1]>> ELSE EmptyStr,
         Path     |-> IF HasPrefixHttp(loc) THEN SubSeq(loc, 2, Len(loc)) ELSE loc,
         Fragment |-> IF p = 0 THEN EmptyStr ELSE SubSeq(s, p + 1, Len(s))]

\* (*url.URL).String()
UrlString(u) ==
    u.Host \o u.Path
           \o (IF u.Fragment = EmptyStr THEN EmptyStr ELSE <<HashSlash>> \o u.Fragment)

\* fmt.Sprintf("%s#/%s", a, b)
WithFragment(a, b) == a \o <<HashSlash>> \o b

(***************************************************************************)
(* YAML trees.  A document is written as a nested value and laid out in a  *)
(* heap in document order: node ids are positions of a pre-order walk, so  *)
(* a smaller id is an earlier line of the document.                        *)
(***************************************************************************)
Scalar(v) == [kind |-> "scalar", value |-> v, kids |-> <<>>]
MapNode(kids) == [kind |-> "map", value |-> EmptyStr, kids |-> kids]
SeqNode(kids) == [kind |-> "seq", value |-> EmptyStr, kids |-> kids]
Key(name) == Scalar(<<name>>)
\* the node that holds a reference: {$ref: raw}
RefNode(raw) == MapNode(<<Scalar(RefKey), Scalar(raw)>>)

RECURSIVE SizeOf(_), SizeOfKids(_, _)
SizeOfKids(kids, k) ==
    IF k = 0 THEN 0 ELSE SizeOfKids(kids, k - 1) + SizeOf(kids[k])
SizeOf(t) == 1 + SizeOfKids(t.kids, Len(t.kids))

KidId(t, base, k) == base + 1 + SizeOfKids(t.kids, k - 1)

RECURSIVE FlattenTree(_, _), FlattenKids(_, _, _)
FlattenTree(t, base) ==
    <<[Kind    |-> t.kind,
       Value   |-> t.value,
       Content |-> [k \in 1..Len(t.kids) |-> KidId(t, base, k)]]>>
    \o FlattenKids(t, base, 1)
FlattenKids(t, base, k) ==
    IF k > Len(t.kids) THEN <<>>
    ELSE FlattenTree(t.kids[k], KidId(t, base, k)) \o FlattenKids(t, base, k + 1)

RECURSIVE ConcatAll(_)
ConcatAll(ss) == IF ss = <<>> THEN <<>> ELSE Head(ss) \o ConcatAll(Tail(ss))

RECURSIVE FindKeyIndex(_, _, _, _)
\* the even position i (counted from 0) of the first key of the given name
\* in a Content sequence, -1 if there is none
FindKeyIndex(values, cont, name, i) ==
    IF i + 1 > Len(cont) THEN 0 - 1
    ELSE IF values[cont[i + 1]] = name /\ i + 2 <= Len(cont) THEN i
    ELSE FindKeyIndex(values, cont, name, i + 2)

\* utils.FindKeyNodeTop(name, cont): the value node of the first key of
\* that name, 0 if there is none
FindKeyNodeTop(values, cont, name) ==
    LET i == FindKeyIndex(values, cont, name, 0)
    IN  IF i < 0 THEN 0 ELSE cont[i + 2]

(***************************************************************************)
(* Documents.  A document is described by its component schemas, in        *)
(* document order, each with the references its body holds:                *)
(*   kind "req"     p: {$ref: T}, p listed as required                     *)
(*   kind "opt"     p: {$ref: T}                                           *)
(*   kind "arr"     p: {type: array, items: {$ref: T}}                     *)
(*   kind "arrReq"  the same, p listed as required                         *)
(*   kind "polyArr" p: {kw: [{$ref: T}]}      kw one of oneOf/anyOf/allOf  *)
(*   kind "polyObj" p: {kw: {items: {$ref: T}}}                            *)
(*   kind "polyTop" kw: [{$ref: T}]  written in the schema itself          *)
(* A schema marked alias is itself a reference: X: {$ref: T}.  The paths   *)
(* section holds references that lie outside every component.  A second    *)
(* file holds the foreign components, which the root document reaches by   *)
(* their absolute location.                                                *)
(***************************************************************************)
PropNames == <<"p1", "p2", "p3", "p4">>
Missing == "Missing"
PolyKeywords == {"allOf", "oneOf", "anyOf"}

Entry(kind, target, kw) == [kind |-> kind, target |-> target, kw |-> kw]
Comp(id, frag, alias, entries) ==
    [id |-> id, frag |-> frag, alias |-> alias, entries |-> entries]

RootLoc(base) ==
    CASE base = "bare" -> EmptyStr
      [] base = "file" -> <<Slash, "f1">>
      [] base = "http" -> <<HttpHost, Slash, "f1">>
ForeignLoc(base) ==
    IF base = "http" THEN <<HttpHost, Slash, "f2">> ELSE <<Slash, "f2">>

AllComps(d) == d.comps \o d.foreign
CompOf(d, id) == LET k == CHOOSE k \in 1..Len(AllComps(d)) : AllComps(d)[k].id = id
                 IN  AllComps(d)[k]
IsForeign(d, id) == \E k \in 1..Len(d.foreign) : d.foreign[k].id = id
LocOf(d, id) == IF IsForeign(d, id) THEN ForeignLoc(d.base) ELSE RootLoc(d.base)
RefIds(d) == {AllComps(d)[k].id : k \in 1..Len(AllComps(d))}

\* Reference.Definition and Reference.FullDefinition of a component
DefinitionOf(d, id) == <<HashSlash, CompOf(d, id).frag>>
FullDefinitionOf(d, id) == LocOf(d, id) \o DefinitionOf(d, id)

\* the $ref string written in a file at location loc for a target
RawRef(d, loc, target) ==
    IF target = Missing THEN <<HashSlash, Missing>>
    ELSE IF LocOf(d, target) = loc THEN DefinitionOf(d, target)
    ELSE FullDefinitionOf(d, target)

\* the canonical location of a $ref string written in a file at location loc
Canonical(loc, raw) == IF HasPrefixHash(raw) THEN loc \o raw ELSE raw

EntryKids(d, loc, e, j) ==
    LET r == RefNode(RawRef(d, loc, e.target))
    IN  CASE e.kind \in {"req", "opt"} -> <<Key(PropNames[j]), r>>
          [] e.kind \in {"arr", "arrReq"} ->
                <<Key(PropNames[j]),
                  MapNode(<<Key("type"), Key("array"), Key("items"), r>>)>>
          [] e.kind = "polyArr" ->
                <<Key(PropNames[j]), MapNode(<<Key(e.kw), SeqNode(<<r>>)>>)>>
          [] e.kind = "polyObj" ->
                <<Key(PropNames[j]),
                  MapNode(<<Key(e.kw), MapNode(<<Key("items"), r>>)>>)>>
          [] e.kind = "polyTop" -> <<Key(e.kw), SeqNode(<<r>>)>>

EntriesKids(d, loc, entries) ==
    ConcatAll([j \in 1..Len(entries) |-> EntryKids(d, loc, entries[j], j)])

BodyTree(d, c) ==
    LET loc == LocOf(d, c.id)
    IN  IF c.alias THEN RefNode(RawRef(d, loc, c.entries[1].target))
        ELSE MapNode(EntriesKids(d, loc, c.entries))

SchemasTree(d, comps) ==
    MapNode(ConcatAll([k \in 1..Len(comps) |-> <<Key(comps[k].frag), BodyTree(d, comps[k])>>]))

FileTree(d, loc, paths, comps) ==
    MapNode(<<Key("paths"), MapNode(EntriesKids(d, loc, paths)),
              Key("components"), MapNode(<<Key("schemas"), SchemasTree(d, comps)>>)>>)

RootTree(d) == FileTree(d, RootLoc(d.base), d.paths, d.comps)
ForeignTree(d) == FileTree(d, ForeignLoc(d.base), <<>>, d.foreign)

\* the heap of both files: the root document first
HeapOf(d) ==
    FlattenTree(RootTree(d), 1) \o FlattenTree(ForeignTree(d), 1 + SizeOf(RootTree(d)))

(***************************************************************************)
(* The SpecIndex of the root document, as the resolver reads it.           *)
(***************************************************************************)
HeapKind(heap) == [n \in 1..Len(heap) |-> heap[n].Kind]
HeapValue(heap) == [n \in 1..Len(heap) |-> heap[n].Value]
HeapContent(heap) == [n \in 1..Len(heap) |-> heap[n].Content]

\* the node of components.schemas.<frag> in the file whose root node is root
SchemaNode(heap, root, frag) ==
    LET v == HeapValue(heap)
        c == HeapContent(heap)
        components == FindKeyNodeTop(v, c[root], <<"components">>)
        schemas == FindKeyNodeTop(v, c[components], <<"schemas">>)
    IN  FindKeyNodeTop(v, c[schemas], <<frag>>)

\* utils.IsNodeMap, utils.IsNodeArray, utils.IsNodeStringValue
IsNodeMap(kinds, n) == n # 0 /\ kinds[n] = "map"
IsNodeArray(kinds, n) == n # 0 /\ kinds[n] = "seq"
IsNodeStringValue(kinds, n) == n # 0 /\ kinds[n] = "scalar"

\* utils.IsNodeRefValue(n): n holds a $ref key; RefValueOf is its string
IsNodeRefValue(values, cont, n) ==
    n # 0 /\ FindKeyIndex(values, cont[n], RefKey, 0) >= 0
RefValueOf(values, cont, n) == values[FindKeyNodeTop(values, cont[n], RefKey)]

RECURSIVE Ascending(_)
\* the numbers of a finite set, in increasing order
Ascending(S) ==
    IF S = {} THEN <<>>
    ELSE LET m == CHOOSE x \in S : \A y \in S : x <= y
         IN  <<m>> \o Ascending(S \ {m})

RECURSIVE Dedupe(_, _)
\* the elements of s that are not in the set seen, each once, in order
Dedupe(s, seen) ==
    IF s = <<>> THEN <<>>
    ELSE IF Head(s) \in seen THEN Dedupe(Tail(s), seen)
    ELSE <<Head(s)>> \o Dedupe(Tail(s), seen \cup {Head(s)})

\* SpecIndex.SearchIndexForReference: the Reference filed under a canonical
\* location, Nil if there is none
LookupIn(fullDefs, def) ==
    IF \E r \in DOMAIN fullDefs : fullDefs[r] = def
    THEN CHOOSE r \in DOMAIN fullDefs : fullDefs[r] = def
    ELSE Nil

RequiredOf(d, c) ==
    {Canonical(LocOf(d, c.id), RawRef(d, LocOf(d, c.id), c.entries[j].target)) :
        j \in {j \in 1..Len(c.entries) : c.entries[j].kind \in {"req", "arrReq"}}}

BuildIndex(d) ==
    LET heap == HeapOf(d)
        kinds == HeapKind(heap)
        values == HeapValue(heap)
        cont == HeapContent(heap)
        rootSize == SizeOf(RootTree(d))
        fullDefs == [r \in RefIds(d) |-> FullDefinitionOf(d, r)]
        holders == Ascending({n \in 1..rootSize :
                                 kinds[n] = "map" /\ IsNodeRefValue(values, cont, n)})
        keyOf(n) == Canonical(RootLoc(d.base), RefValueOf(values, cont, n))
        targets == [k \in 1..Len(holders) |-> LookupIn(fullDefs, keyOf(holders[k]))]
    IN  [Kind |-> kinds,
         Value |-> values,
         \* yaml.Node.Content of every node as the document was parsed
         Content |-> cont,
         refs |-> RefIds(d),
         Definition |-> [r \in RefIds(d) |-> DefinitionOf(d, r)],
         FullDefinition |-> fullDefs,
         Node |-> [r \in RefIds(d) |->
                      SchemaNode(heap, IF IsForeign(d, r) THEN rootSize + 1 ELSE 1,
                                 CompOf(d, r).frag)],
         RequiredRefProperties |-> [r \in RefIds(d) |-> RequiredOf(d, CompOf(d, r))],
         \* GetMappedReferencesSequenced: the located targets, in discovery order
         mapped |-> Dedupe(targets, {Nil}),
         \* GetAllComponentSchemas: the component schemas of the root document
         schemas |-> {d.comps[k].id : k \in 1..Len(d.comps)},
         \* GetAllSequencedReferences: every $ref of the root document, in order
         sequenced |-> [k \in 1..Len(holders) |->
                          [Node |-> holders[k], Definition |-> keyOf(holders[k])]]]

(***************************************************************************)
(* The reference locators of extractRelatives: from the FullDefinition of  *)
(* the referring Reference and a raw $ref string to the location that is   *)
(* looked up in the index.  The code has three copies of this computation. *)
(***************************************************************************)
\* the location of a file named rel, relative to the file at location base
RelativeFile(base, rel) == FilepathAbs(FilepathJoin(FilepathDir(base), rel))

\* the same below a URL: the path of u is replaced, the fragment is dropped
\* when clear is set
RelativeUrl(u, rel, clear) ==
    UrlString([Host |-> u.Host,
               Path |-> RelativeFile(u.Path, rel),
               Fragment |-> IF clear THEN EmptyStr ELSE u.Fragment])

\* the $ref key of a map (generic extraction): Definition and FullDefinition
\* of the Reference that is searched
LocateGeneric(refFullDef, value) ==
    LET exp == SplitOn(value, HashSlash)
        fileDef == SplitOn(refFullDef, HashSlash)
    IN  IF Len(exp) = 2
        THEN [Definition |-> <<HashSlash>> \o exp[2],
              FullDefinition |->
                IF exp[1] # EmptyStr
                THEN IF HasPrefixHttp(exp[1]) \/ IsAbs(exp[1]) THEN value
                     ELSE IF HasPrefixHttp(refFullDef)
                     THEN WithFragment(
                              RelativeUrl(UrlParse(fileDef[1]), exp[1], TRUE), exp[2])
                     ELSE WithFragment(RelativeFile(fileDef[1], exp[1]), exp[2])
                ELSE IF HasPrefixHttp(refFullDef)
                     THEN WithFragment(UrlString(UrlParse(fileDef[1])), exp[2])
                     ELSE WithFragment(fileDef[1], exp[2])]
        ELSE [Definition |-> value,
              FullDefinition |->
                IF HasPrefixHttp(value) \/ IsAbs(value) THEN value
                ELSE IF HasPrefixHttp(fileDef[1])
                THEN RelativeUrl(UrlParse(fileDef[1]), exp[1], FALSE)
                ELSE RelativeFile(fileDef[1], exp[1])]

\* filepath.Dir of a whole FullDefinition: the separator inside "#/" counts
FilepathDirOfFullDef(s) ==
    LET q == LastIndexOfToken(s, Slash, Len(s))
        h == LastIndexOfToken(s, HashSlash, Len(s))
    IN  IF h > q THEN SubSeq(s, 1, h - 1) \o <<"#">> ELSE FilepathDir(s)

\* a oneOf/anyOf/allOf branch written as an object with items
LocatePolyObject(refFullDef, l) ==
    LET exp == SplitOn(l, HashSlash)
        fd == SplitOn(refFullDef, HashSlash)
        u == UrlParse(refFullDef)
    IN  IF Len(exp) = 2
        THEN IF exp[1] # EmptyStr
             THEN IF ~HasPrefixHttp(exp[1])
                  THEN IF ~IsAbs(exp[1])
                       THEN IF HasPrefixHttp(refFullDef)
                            THEN WithFragment(RelativeUrl(u, exp[1], TRUE), exp[2])
                            ELSE WithFragment(RelativeFile(fd[1], exp[1]), exp[2])
                       ELSE l
                  ELSE IF Len(exp[2]) > 0 THEN l ELSE exp[1]
             ELSE IF HasPrefixHttp(refFullDef)
                  THEN WithFragment(UrlString([u EXCEPT !.Fragment = EmptyStr]), exp[2])
                  ELSE IF HasPrefixHash(refFullDef)
                  THEN <<HashSlash>> \o exp[2]
                  ELSE WithFragment(fd[1], exp[2])
        ELSE IF HasPrefixHttp(l) \/ IsAbs(l) THEN l
             ELSE IF HasPrefixHttp(refFullDef) THEN RelativeUrl(u, l, TRUE)
             ELSE RelativeFile(fd[1], l)

\* a oneOf/anyOf/allOf branch written as a sequence
LocatePolyArray(refFullDef, l) ==
    LET exp == SplitOn(l, HashSlash)
        fd == SplitOn(refFullDef, HashSlash)
        u == UrlParse(refFullDef)
    IN  IF Len(exp) = 2
        THEN IF exp[1] # EmptyStr
             THEN IF ~HasPrefixHttp(exp[1])
                  THEN IF ~IsAbs(exp[1])
                       THEN IF HasPrefixHttp(refFullDef)
                            THEN WithFragment(RelativeUrl(u, exp[1], FALSE), exp[2])
                            ELSE WithFragment(
                                     FilepathAbs(FilepathJoin(
                                         FilepathDirOfFullDef(refFullDef), exp[1])),
                                     exp[2])
                       ELSE l
                  ELSE IF Len(exp[2]) > 0 THEN l ELSE exp[1]
             ELSE IF HasPrefixHttp(refFullDef)
                  THEN WithFragment(UrlString([u EXCEPT !.Fragment = EmptyStr]), exp[2])
                  ELSE IF HasPrefixHash(refFullDef)
                  THEN <<HashSlash>> \o exp[2]
                  ELSE WithFragment(refFullDef, exp[2])
        ELSE IF HasPrefixHttp(l) \/ IsAbs(l) THEN l
             ELSE IF HasPrefixHttp(refFullDef) THEN RelativeUrl(u, l, TRUE)
             ELSE RelativeFile(fd[1], l)

(***************************************************************************)
(* The documents the model starts from.                                    *)
(***************************************************************************)
\* the sequences of at most two elements of a set
UpToTwo(E) == {<<>>} \cup {<<e>> : e \in E} \cup {<<e1, e2>> : e1 \in E, e2 \in E}

Plain(T) == {Entry(k, t, "") : k \in {"req", "opt"}, t \in T}

UpToOne(E) == {<<>>} \cup {<<e>> : e \in E}

Doc(base, paths, comps, foreign) ==
    [base |-> base, paths |-> paths, comps |-> comps, foreign |-> foreign]
Schema(id, entries) == Comp(id, id, FALSE, entries)
Alias(id, target) == Comp(id, id, TRUE, <<Entry("opt", target, "")>>)

\* two schemas with required and optional references to each other
GraphDocs ==
    {Doc("bare", <<>>, <<Schema("A", a), Schema("B", b)>>, <<>>) :
        a \in UpToOne(Plain({"A", "B"})), b \in UpToTwo(Plain({"A", "B"}))}
    \cup
    {Doc("bare", <<>>, <<Schema("A", a), Schema("B", b)>>, <<>>) :
        a \in UpToTwo(Plain({"A", "B"})), b \in UpToOne(Plain({"B"}))}

\* three schemas, each with at most one required reference
ChainDocs ==
    {Doc("bare", <<>>, <<Schema("A", a), Schema("B", b), Schema("C", c)>>, <<>>) :
        a \in UpToOne({Entry("req", t, "") : t \in {"B", "C"}}),
        b \in UpToOne({Entry("req", t, "") : t \in {"A", "C"}}),
        c \in UpToOne({Entry("req", t, "") : t \in {"A", "B", "C"}})}

\* references below array schemas
ArrayKinds(T) == {Entry(k, t, "") : k \in {"req", "opt", "arr", "arrReq"}, t \in T}
ArrayDocs ==
    {Doc("bare", <<>>, <<Schema("A", a)>>, <<>>) : a \in UpToTwo(ArrayKinds({"A"}))}
    \cup
    {Doc("bare", <<>>, <<Schema("A", <<a>>), Schema("B", <<b>>)>>, <<>>) :
        a \in ArrayKinds({"B"}), b \in ArrayKinds({"A"})}

\* references in oneOf/anyOf/allOf branches
PolyKinds(T) ==
    {Entry("polyArr", t, "oneOf") : t \in T}
    \cup {Entry("polyObj", t, "anyOf") : t \in T}
    \cup {Entry("polyTop", t, "allOf") : t \in T}
PolyDocs ==
    {Doc(base, <<>>, <<Schema("A", a), Schema("B", b)>>, <<>>) :
        base \in {"bare"},
        a \in UpToTwo(PolyKinds({"A", "B"}) \cup {Entry("opt", "A", "")}),
        b \in {<<>>, <<Entry("opt", "A", "")>>, <<Entry("polyArr", "A", "allOf")>>,
               <<Entry("polyObj", "A", "oneOf")>>}}
    \cup
    {Doc(base, <<>>, <<Schema("A", <<a>>), Schema("B", b)>>, <<>>) :
        base \in {"file", "http"},
        a \in PolyKinds({"A", "B"}),
        b \in {<<>>, <<Entry("polyArr", "A", "allOf")>>, <<Entry("polyObj", "A", "oneOf")>>}}

\* references to targets that are not in the index
MissingDocs ==
    {Doc("bare", <<>>, <<Schema("A", a), Schema("B", <<>>)>>, <<>>) :
        a \in UpToTwo({Entry("opt", Missing, ""), Entry("arr", Missing, ""),
                       Entry("polyArr", Missing, "oneOf"), Entry("opt", "B", ""),
                       Entry("req", "A", "")})}

\* two files that both have a component named A: A2 is the one of the
\* second file
FileDocs ==
    {Doc(base, <<>>, <<Schema("A", <<a>>), Schema("B", b)>>, <<Comp("A2", "A", FALSE, f)>>) :
        base \in {"file", "http"},
        a \in {Entry("opt", "A2", ""), Entry("req", "B", ""), Entry("opt", "B", "")},
        b \in UpToOne(Plain({"A", "A2"})),
        f \in UpToOne({Entry("req", "B", ""), Entry("opt", "A2", ""),
                       Entry("req", "A", "")})}

\* references outside the components, and schemas that are references
PathsDocs ==
    {Doc("bare", p, <<a, b>>, <<>>) :
        p \in UpToTwo({Entry("opt", "A", ""), Entry("opt", "B", ""),
                       Entry("opt", Missing, "")}),
        a \in {Schema("A", <<>>), Schema("A", <<Entry("opt", "B", "")>>),
               Schema("A", <<Entry("req", "A", "")>>), Alias("A", "B")},
        b \in {Schema("B", <<>>), Schema("B", <<Entry("req", "A", "")>>), Alias("B", "A")}}

\* A and B require each other; the reference under paths decides which of
\* them the index lists first
CycleDocs ==
    {Doc("bare", p, <<Schema("A", <<Entry("req", "B", "")>>),
                      Schema("B", <<Entry("req", "A", "")>>)>>, <<>>) :
        p \in UpToOne({Entry("opt", "A", ""), Entry("opt", "B", "")})}

\* a chain of required references that is longer than a journey may get:
\* the schema at which the journey is cut refers back into the journey and
\* to a target that is missing
DeepNames == <<"A", "B", "C", "D", "E", "F", "G">>
DeepLen == MaxJourney + 2
DeepSchema(k, last) ==
    Schema(DeepNames[k],
           IF k < DeepLen THEN <<Entry("req", DeepNames[k + 1], "")>> ELSE last)
DeepDocs ==
    {Doc("bare", <<>>, [k \in 1..DeepLen |-> DeepSchema(k, last)], <<>>) :
        last \in {<<Entry("req", "B", ""), Entry("opt", Missing, "")>>,
                  <<Entry("polyArr", "B", "oneOf")>>,
                  <<Entry("arr", "C", "")>>}}

\* a cycle of three schemas, one of which refers back into the cycle and
\* then to one more schema: that one is visited after the cycle was recorded
SiblingDocs ==
    {Doc("bare", <<>>, <<Schema("A", <<Entry(k, "B", ""), Entry("opt", t, "")>>),
                         Schema("B", <<Entry("opt", "C", "")>>),
                         Schema("C", <<Entry("opt", "A", "")>>),
                         Schema("D", <<>>)>>, <<>>) :
        k \in {"opt", "req", "arr"}, t \in {"C", "D"}}

Docs == GraphDocs \cup ChainDocs \cup ArrayDocs \cup PolyDocs \cup MissingDocs
        \cup FileDocs \cup PathsDocs \cup CycleDocs \cup DeepDocs \cup SiblingDocs

(***************************************************************************)
(* State.                                                                  *)
(***************************************************************************)
VARIABLES
    idx,                     \* the SpecIndex (never changes)
    content,                 \* yaml.Node.Content of every node
    Seen, Resolved, Circular,\* the flags of every Reference
    ParentNodeSchemaType,    \* Reference.ParentNodeSchemaType
    resolvingErrors,         \* Resolver.resolvingErrors
    circularReferences,      \* Resolver.circularReferences
    ignoredPolyReferences,   \* Resolver.ignoredPolyReferences
    ignoredArrayReferences,  \* Resolver.ignoredArrayReferences
    counters,                \* referencesVisited, indexesVisited, journeysTaken, relativesSeen
    IgnorePoly, IgnoreArray, \* the toggles of the Resolver
    indexCircularReferences, \* what SetCircularReferences stored on the index
    stack,                   \* the call stack, innermost activation last
    ret,                     \* the value the last finished activation returned
    arrays,                  \* the backing arrays of the journey slices
    visitedDefinitions,      \* the map passed along isInfiniteCircularDependency
    status,                  \* "idle", "running" or "stack overflow"
    calls,                   \* the runs started so far, in order
    spliced,                 \* history: the References whose content was copied
    retTypes,                \* history: the schema type of the occurrence
                             \* behind each relative that was returned
    choices,                 \* history: what the loops over Go maps picked
    visits,                  \* history: the References VisitReference was
                             \* called on, in the order of the calls
    firstRun,                \* history: what the run on the index built
                             \* before this one recorded
    localFS, remoteFS,       \* Rolodex.localFS, Rolodex.remoteFS
    indexed,                 \* Rolodex.indexed
    indexingCompleted,       \* the locals of the IndexTheRolodex() under way
    totalToIndex,
    caughtErrors,
    indexBuildQueue,
    tasks,                   \* where every goroutine of IndexTheRolodex() is
    wg,                      \* the sync.WaitGroup of every filesystem task
    rolodexPc,               \* where the caller of IndexTheRolodex() is
    indexings,               \* the IndexTheRolodex() calls started so far
    returned,                \* what every finished IndexTheRolodex() returned
    registered,              \* history: the roots in the order of AddLocalFS
    opened,                  \* what every Open() returned
    handles,                 \* the rolodexFile values Open() has made
    builds,                  \* history: the files whose content was parsed
    indexReturn,             \* what the last rolodexFile.Index() returned
    indexCalls,              \* the rolodexFile.Index() calls of concurrent callers
    document,                \* Converter.document: <<>> is nil, <<d>> a document
    converted                \* what ConvertV3ToV31() returned, <<>> before it

refVars == <<Seen, Resolved, Circular, ParentNodeSchemaType>>
bucketVars == <<circularReferences, ignoredPolyReferences, ignoredArrayReferences>>
toggleVars == <<IgnorePoly, IgnoreArray>>
resolverVars == <<idx, content, Seen, Resolved, Circular, ParentNodeSchemaType,
                  resolvingErrors, circularReferences, ignoredPolyReferences,
                  ignoredArrayReferences, counters, IgnorePoly, IgnoreArray,
                  indexCircularReferences, stack, ret, arrays, visitedDefinitions,
                  status, calls, spliced, retTypes, choices, visits,
                  firstRun>>
openVars == <<registered, opened, handles, builds, indexReturn, indexCalls>>
rolodexVars == <<localFS, remoteFS, indexed, indexingCompleted, totalToIndex,
                 caughtErrors, indexBuildQueue, tasks, wg, rolodexPc, indexings,
                 returned, openVars>>
convertVars == <<document, converted>>
vars == <<resolverVars, rolodexVars, convertVars>>
history == <<spliced, retTypes, choices, visits, firstRun>>


\* NewRolodex(indexConfig): no filesystem is registered, nothing is indexed
NewRolodex ==
    /\ localFS = <<>>
    /\ remoteFS = <<>>
    /\ indexed = FALSE
    /\ indexingCompleted = 0
    /\ totalToIndex = 0
    /\ caughtErrors = <<>>
    /\ indexBuildQueue = <<>>
    /\ tasks = <<>>
    /\ wg = <<>>
    /\ rolodexPc = "idle"
    /\ indexings = 0
    /\ returned = <<>>
    /\ registered = <<>>
    /\ opened = <<>>
    /\ handles = <<>>
    /\ builds = <<>>
    /\ indexReturn = <<>>
    /\ indexCalls = <<>>

\* the state after NewSpecIndex and NewResolver on document d, and NewRolodex
InitOn(d) ==
    /\ idx = BuildIndex(d)
    /\ content = HeapContent(HeapOf(d))
    /\ Seen = [r \in RefIds(d) |-> FALSE]
    /\ Resolved = [r \in RefIds(d) |-> FALSE]
    /\ Circular = [r \in RefIds(d) |-> FALSE]
    /\ ParentNodeSchemaType = [r \in RefIds(d) |-> ""]
    /\ resolvingErrors = <<>>
    /\ circularReferences = <<>>
    /\ ignoredPolyReferences = <<>>
    /\ ignoredArrayReferences = <<>>
    /\ counters = [referencesVisited |-> 0, indexesVisited |-> 0,
                   journeysTaken |-> 0, relativesSeen |-> 0]
    /\ IgnorePoly = FALSE
    /\ IgnoreArray = FALSE
    /\ indexCircularReferences = <<>>
    /\ stack = <<>>
    /\ ret = <<>>
    /\ arrays = <<>>
    /\ visitedDefinitions = {}
    /\ status = "idle"
    /\ calls = <<>>
    /\ spliced = {}
    /\ retTypes = <<>>
    /\ choices = <<>>
    /\ visits = <<>>
    /\ firstRun = <<>>
    /\ NewRolodex
    /\ document = <<>>
    /\ converted = <<>>

Init == \E d \in Docs : InitOn(d)

(***************************************************************************)
(* Go slices of References: a slice is a window [1..len] on a backing      *)
(* array; append writes in place while the array has room and moves to a   *)
(* new array of twice the capacity when it has none.                       *)
(***************************************************************************)
NilSlice == [arr |-> 0, len |-> 0]
Elems(arrs, s) == IF s.arr = 0 THEN <<>> ELSE SubSeq(arrs[s.arr], 1, s.len)
Cap(arrs, s) == IF s.arr = 0 THEN 0 ELSE Len(arrs[s.arr])
GrowCap(c) == IF c = 0 THEN 1 ELSE 2 * c

\* append(s, x): the arrays after the call and the slice it returns
AppendSlice(arrs, s, x) ==
    IF s.len < Cap(arrs, s)
    THEN [arrays |-> [arrs EXCEPT ![s.arr][s.len + 1] = x],
          slice  |-> [arr |-> s.arr, len |-> s.len + 1]]
    ELSE LET c == GrowCap(Cap(arrs, s))
             a == [k \in 1..c |-> IF k <= s.len THEN arrs[s.arr][k]
                                   ELSE IF k = s.len + 1 THEN x ELSE Nil]
         IN  [arrays |-> Append(arrs, a),
              slice  |-> [arr |-> Len(arrs) + 1, len |-> s.len + 1]]

(***************************************************************************)
(* Index lookups.                                                          *)
(***************************************************************************)
\* SpecIndex.SearchIndexForReference(def)
SearchIndexForReference(def) == LookupIn(idx.FullDefinition, def)
\* SpecIndex.SearchIndexForReferenceByReference(r)
SearchIndexForReferenceByReference(fullDef) == SearchIndexForReference(fullDef)
\* GetMappedReferences()[def]
MappedReference(def) ==
    LET r == SearchIndexForReference(def)
    IN  IF r # Nil /\ \E k \in 1..Len(idx.mapped) : idx.mapped[k] = r THEN r ELSE Nil

(***************************************************************************)
(* The call stack.                                                         *)
(***************************************************************************)
Top == stack[Len(stack)]
At(fn, pc) == status = "running" /\ Len(stack) > 0 /\ Top.fn = fn /\ Top.pc = pc
Popped == SubSeq(stack, 1, Len(stack) - 1)
\* the caller goes on as frame f while callee runs
Call(f, callee) == Append([stack EXCEPT ![Len(stack)] = f], callee)
Goto(f) == [stack EXCEPT ![Len(stack)] = f]

VisitIndexFrame(fn) ==
    [fn |-> fn, pc |-> "top", k |-> 1, m |-> 1, ref |-> Nil,
     rest |-> {s \in idx.schemas : MappedReference(idx.FullDefinition[s]) = Nil}]
VisitReferenceFrame(ref, journey, resolve) ==
    [fn |-> "VisitReference", pc |-> "enter", ref |-> ref, journey |-> journey,
     resolve |-> resolve, relatives |-> <<>>, k |-> 1, i |-> 0, loop |-> NilSlice,
     relTypes |-> <<>>]
\* an activation that is handed no parent node when it resolves
ExtractRelativesFrameNoParent(ref, node, parent, journey, resolve) ==
    [fn |-> "extractRelatives", pc |-> "enter", ref |-> ref, node |-> node,
     parent |-> IF resolve THEN 0 ELSE parent, journey |-> journey,
     resolve |-> resolve, i |-> 0, q |-> 0, found |-> <<>>, foundTypes |-> <<>>]

ExtractRelativesFrame(ref, node, parent, journey, resolve) ==
    [fn |-> "extractRelatives", pc |-> "enter", ref |-> ref, node |-> node,
     parent |-> parent, journey |-> journey, resolve |-> resolve,
     i |-> 0, q |-> 0, found |-> <<>>, foundTypes |-> <<>>]
IcdFrame(ref, initialRef) ==
    [fn |-> "isInfiniteCircularDependency", pc |-> "loop", ref |-> ref,
     initialRef |-> initialRef,
     todo |-> IF ref = Nil THEN {} ELSE idx.RequiredRefProperties[ref]]

IcdDepth ==
    Cardinality({k \in 1..Len(stack) : stack[k].fn = "isInfiniteCircularDependency"})

(***************************************************************************)
(* NewResolver on the index that an earlier Resolver has worked on: the    *)
(* fields of the Resolver start from their zero values, the References and *)
(* the nodes of the index are as the earlier runs left them.               *)
(***************************************************************************)
FreshResolver == counters.indexesVisited = 0

NewResolver ==
    /\ status = "idle" /\ ~FreshResolver /\ Len(calls) < MaxRuns
    /\ resolvingErrors' = <<>>
    /\ circularReferences' = <<>>
    /\ ignoredPolyReferences' = <<>>
    /\ ignoredArrayReferences' = <<>>
    /\ counters' = [referencesVisited |-> 0, indexesVisited |-> 0,
                    journeysTaken |-> 0, relativesSeen |-> 0]
    /\ IgnorePoly' = FALSE
    /\ IgnoreArray' = FALSE
    /\ UNCHANGED <<history, idx, rolodexVars, convertVars, content, refVars, indexCircularReferences, stack,
                   ret, arrays, visitedDefinitions, status, calls>>

(***************************************************************************)
(* The toggles: "This must be set before any resolving is done."           *)
(***************************************************************************)
IgnorePolymorphicCircularReferences ==
    /\ status = "idle" /\ FreshResolver /\ ~IgnorePoly
    /\ IgnorePoly' = TRUE
    /\ UNCHANGED <<history, idx, rolodexVars, convertVars, content, refVars, resolvingErrors, bucketVars, counters,
                   IgnoreArray, indexCircularReferences, stack, ret, arrays,
                   visitedDefinitions, status, calls>>

IgnoreArrayCircularReferences ==
    /\ status = "idle" /\ FreshResolver /\ ~IgnoreArray
    /\ IgnoreArray' = TRUE
    /\ UNCHANGED <<history, idx, rolodexVars, convertVars, content, refVars, resolvingErrors, bucketVars, counters,
                   IgnorePoly, indexCircularReferences, stack, ret, arrays,
                   visitedDefinitions, status, calls>>

(***************************************************************************)
(* Resolve and CheckForCircularReferences.                                 *)
(***************************************************************************)
ResolvingError(errorRef, node, circ) ==
    [ErrorRef |-> errorRef, Node |-> node, CircularReference |-> circ]

RECURSIVE InfiniteLoopErrors(_, _)
\* one error for every infinite loop of circs; linked to it when link is set
InfiniteLoopErrors(circs, link) ==
    IF circs = <<>> THEN <<>>
    ELSE (IF Head(circs).IsInfiniteLoop
          THEN <<ResolvingError("infinite circular reference detected",
                                idx.Node[Head(circs).LoopPoint],
                                IF link THEN <<Head(circs)>> ELSE <<>>)>>
          ELSE <<>>)
         \o InfiniteLoopErrors(Tail(circs), link)

\* Resolve() up to and into visitIndex
Resolve ==
    /\ status = "idle" /\ Len(calls) < MaxRuns
    /\ calls' = Append(calls, "Resolve")
    /\ status' = "running"
    /\ stack' = <<[fn |-> "Resolve", pc |-> "afterVisitIndex"],
                  VisitIndexFrame("visitIndex")>>
    /\ counters' = [counters EXCEPT !.indexesVisited = @ + 1]
    /\ UNCHANGED <<history, idx, rolodexVars, convertVars, content, refVars, resolvingErrors, bucketVars, toggleVars,
                   indexCircularReferences, ret, arrays, visitedDefinitions>>

\* Resolve() after visitIndex: the errors of the infinite loops
ResolveReturn ==
    /\ At("Resolve", "afterVisitIndex")
    /\ resolvingErrors' = resolvingErrors \o InfiniteLoopErrors(circularReferences, FALSE)
    /\ ret' = resolvingErrors'
    /\ stack' = <<>>
    /\ status' = "idle"
    /\ UNCHANGED <<history, idx, rolodexVars, convertVars, content, refVars, bucketVars, counters, toggleVars,
                   indexCircularReferences, arrays, visitedDefinitions, calls>>

CheckForCircularReferences ==
    /\ status = "idle" /\ Len(calls) < MaxRuns
    /\ calls' = Append(calls, "CheckForCircularReferences")
    /\ status' = "running"
    /\ stack' = <<[fn |-> "CheckForCircularReferences", pc |-> "afterVisitIndex"],
                  VisitIndexFrame("visitIndexWithoutDamagingIt")>>
    /\ counters' = [counters EXCEPT !.indexesVisited = @ + 1]
    /\ UNCHANGED <<history, idx, rolodexVars, convertVars, content, refVars, resolvingErrors, bucketVars, toggleVars,
                   indexCircularReferences, ret, arrays, visitedDefinitions>>

CheckForCircularReferencesReturn ==
    /\ At("CheckForCircularReferences", "afterVisitIndex")
    /\ resolvingErrors' = resolvingErrors \o InfiniteLoopErrors(circularReferences, TRUE)
    /\ indexCircularReferences' = circularReferences
    /\ ret' = resolvingErrors'
    /\ stack' = <<>>
    /\ status' = "idle"
    /\ UNCHANGED <<history, idx, rolodexVars, convertVars, content, refVars, bucketVars, counters, toggleVars,
                   arrays, visitedDefinitions, calls>>

(***************************************************************************)
(* visitIndex and visitIndexWithoutDamagingIt.                             *)
(***************************************************************************)
AtVisitIndex(pc) ==
    \/ At("visitIndex", pc)
    \/ At("visitIndexWithoutDamagingIt", pc)

\* the loop over the mapped references: the next one is visited
VisitIndexMapped ==
    /\ AtVisitIndex("top")
    /\ Top.k <= Len(idx.mapped)
    /\ LET ref == idx.mapped[Top.k]
       IN  stack' = Call([Top EXCEPT !.pc = "afterVisit", !.ref = ref, !.k = @ + 1],
                         VisitReferenceFrame(ref, NilSlice, Top.fn = "visitIndex"))
    /\ counters' = [counters EXCEPT !.journeysTaken = @ + 1]
    /\ UNCHANGED <<history, idx, rolodexVars, convertVars, content, refVars, resolvingErrors, bucketVars, toggleVars,
                   indexCircularReferences, ret, arrays, visitedDefinitions,
                   status, calls>>

\* the loop over the component schemas that are not mapped, in the order of
\* a Go map: any schema that is left comes next
VisitIndexSchemas ==
    /\ AtVisitIndex("top")
    /\ Top.k > Len(idx.mapped)
    /\ \E schemaRef \in Top.rest :
          /\ stack' = Call([Top EXCEPT !.pc = "afterVisit", !.ref = schemaRef,
                                       !.rest = @ \ {schemaRef}],
                           VisitReferenceFrame(schemaRef, NilSlice, Top.fn = "visitIndex"))
          /\ choices' = Append(choices, idx.FullDefinition[schemaRef])
    /\ counters' = [counters EXCEPT !.journeysTaken = @ + 1]
    /\ UNCHANGED <<spliced, retTypes, visits, firstRun, idx, rolodexVars, convertVars, content, refVars, resolvingErrors, bucketVars, toggleVars,
                   indexCircularReferences, ret, arrays, visitedDefinitions,
                   status, calls>>

\* back from VisitReference: visitIndex stores what it returned
VisitIndexAfterVisit ==
    /\ AtVisitIndex("afterVisit")
    /\ content' = IF Top.fn = "visitIndex"
                  THEN [content EXCEPT ![idx.Node[Top.ref]] = ret]
                  ELSE content
    /\ stack' = Goto([Top EXCEPT !.pc = "top"])
    /\ UNCHANGED <<history, idx, rolodexVars, convertVars, refVars, resolvingErrors, bucketVars, counters, toggleVars,
                   indexCircularReferences, ret, arrays, visitedDefinitions,
                   status, calls>>

\* the content a sequenced reference gets in the last loop of visitIndex
\* the test of the last loop of visitIndex without its look at Circular
CopiesLocatedAlsoCircular(locatedDef) ==
    locatedDef # Nil /\ Seen[locatedDef]

\* "if !locatedDef.Circular && locatedDef.Seen"
CopiesLocated(locatedDef) ==
    locatedDef # Nil /\ ~Circular[locatedDef] /\ Seen[locatedDef]

MappedContent(cont, sequenced) ==
    LET locatedDef == MappedReference(sequenced.Definition)
    IN  IF CopiesLocated(locatedDef)
        THEN cont[idx.Node[locatedDef]]
        ELSE cont[sequenced.Node]

\* the function that walks the sequenced references after its visits
MapsEverythingInBoth(fn) == TRUE

\* only visitIndex has the loop "map everything"
MapsEverything(fn) == fn = "visitIndex"

\* "map everything": one sequenced reference of the index
VisitIndexMapEverything ==
    /\ AtVisitIndex("top")
    /\ MapsEverything(Top.fn)
    /\ Top.k > Len(idx.mapped) /\ Top.rest = {}
    /\ Top.m <= Len(idx.sequenced)
    /\ LET sequenced == idx.sequenced[Top.m]
           locatedDef == MappedReference(sequenced.Definition)
       IN  /\ content' = [content EXCEPT
                              ![sequenced.Node] = MappedContent(content, sequenced)]
           /\ spliced' = IF CopiesLocated(locatedDef)
                         THEN spliced \cup {locatedDef} ELSE spliced
    /\ stack' = Goto([Top EXCEPT !.m = @ + 1])
    /\ UNCHANGED <<retTypes, choices, visits, firstRun, idx, rolodexVars, convertVars, refVars, resolvingErrors,
                   bucketVars, counters, toggleVars, indexCircularReferences, ret,
                   arrays, visitedDefinitions, status, calls>>

VisitIndexReturn ==
    /\ AtVisitIndex("top")
    /\ Top.k > Len(idx.mapped) /\ Top.rest = {}
    /\ MapsEverything(Top.fn) => Top.m > Len(idx.sequenced)
    /\ stack' = Popped
    /\ ret' = <<>>
    /\ UNCHANGED <<history, idx, rolodexVars, convertVars, content, refVars, resolvingErrors, bucketVars, counters,
                   toggleVars, indexCircularReferences, arrays, visitedDefinitions,
                   status, calls>>

(***************************************************************************)
(* VisitReference.                                                         *)
(***************************************************************************)
\* the result without the outcome of the infinite-loop check
ResultNotInfinite(journey, point, loopIndex, isArray, isInfinite, isPoly, polyType) ==
    [Journey |-> journey, Start |-> point, LoopIndex |-> loopIndex,
     LoopPoint |-> point, IsArrayResult |-> isArray, IsInfiniteLoop |-> FALSE,
     IsPolymorphicResult |-> isPoly, PolymorphicType |-> polyType]

CircularReferenceResult(journey, point, loopIndex, isArray, isInfinite, isPoly, polyType) ==
    [Journey |-> journey, Start |-> point, LoopIndex |-> loopIndex,
     LoopPoint |-> point, IsArrayResult |-> isArray, IsInfiniteLoop |-> isInfinite,
     IsPolymorphicResult |-> isPoly, PolymorphicType |-> polyType]

\* the first position (from 0) of the journey that holds the location, -1 if none
JourneyIndex(journey, fullDef) ==
    LET js == Elems(arrays, journey)
        hits == {i \in 1..Len(js) : idx.FullDefinition[js[i]] = fullDef}
    IN  IF hits = {} THEN 0 - 1
        ELSE (CHOOSE i \in hits : \A j \in hits : i <= j) - 1

\* VisitReference without its first test
AlreadyVisitedNever(ref) == FALSE

\* a reference that is Resolved or Seen is not visited again
AlreadyVisited(ref) == Resolved[ref] \/ Seen[ref]

\* the memoised return
VisitReferenceSeen ==
    /\ At("VisitReference", "enter")
    /\ AlreadyVisited(Top.ref)
    /\ counters' = [counters EXCEPT !.referencesVisited = @ + 1]
    /\ visits' = Append(visits, Top.ref)
    /\ ret' = content[idx.Node[Top.ref]]
    /\ stack' = Popped
    /\ UNCHANGED <<spliced, retTypes, choices, firstRun, idx, rolodexVars, convertVars, content, refVars, resolvingErrors, bucketVars, toggleVars,
                   indexCircularReferences, arrays, visitedDefinitions, status, calls>>

\* the reference joins the journey and its relatives are extracted
VisitReferenceEnter ==
    /\ At("VisitReference", "enter")
    /\ ~AlreadyVisited(Top.ref)
    /\ counters' = [counters EXCEPT !.referencesVisited = @ + 1]
    /\ LET a == AppendSlice(arrays, Top.journey, Top.ref)
       IN  /\ arrays' = a.arrays
           /\ stack' = Call([Top EXCEPT !.pc = "afterExtract", !.journey = a.slice],
                            ExtractRelativesFrame(Top.ref, idx.Node[Top.ref], 0,
                                                  a.slice, Top.resolve))
    /\ visits' = Append(visits, Top.ref)
    /\ UNCHANGED <<spliced, retTypes, choices, firstRun, idx, rolodexVars, convertVars, content, refVars, resolvingErrors, bucketVars, toggleVars,
                   indexCircularReferences, ret, visitedDefinitions, status, calls>>

VisitReferenceAfterExtract ==
    /\ At("VisitReference", "afterExtract")
    /\ stack' = Goto([Top EXCEPT !.pc = "loop", !.relatives = ret,
                                 !.relTypes = retTypes, !.k = 1])
    /\ UNCHANGED <<history, idx, rolodexVars, convertVars, content, refVars, resolvingErrors, bucketVars, counters,
                   toggleVars, indexCircularReferences, ret, arrays,
                   visitedDefinitions, status, calls>>

\* a relative that is on the journey and not yet marked Circular: the
\* infinite-loop check is started on it
VisitReferenceRevisit ==
    /\ At("VisitReference", "loop")
    /\ Top.k <= Len(Top.relatives)
    /\ LET r == Top.relatives[Top.k]
           i == JourneyIndex(Top.journey, idx.FullDefinition[r])
           foundDup == SearchIndexForReferenceByReference(idx.FullDefinition[r])
           a == AppendSlice(arrays, Top.journey, foundDup)
       IN  /\ i >= 0
           /\ ~Circular[foundDup]
           /\ arrays' = a.arrays
           /\ visitedDefinitions' = {}
           /\ stack' = Call([Top EXCEPT !.pc = "afterIcd", !.i = i, !.loop = a.slice],
                            IcdFrame(foundDup, Nil))
    /\ UNCHANGED <<history, idx, rolodexVars, convertVars, content, refVars, resolvingErrors, bucketVars, counters,
                   toggleVars, indexCircularReferences, ret, status, calls>>

\* a relative that is on the journey and already marked Circular is skipped
VisitReferenceSkip ==
    /\ At("VisitReference", "loop")
    /\ Top.k <= Len(Top.relatives)
    /\ LET r == Top.relatives[Top.k]
           foundDup == SearchIndexForReferenceByReference(idx.FullDefinition[r])
       IN  /\ JourneyIndex(Top.journey, idx.FullDefinition[r]) >= 0
           /\ Circular[foundDup]
    /\ stack' = Goto([Top EXCEPT !.k = @ + 1])
    /\ UNCHANGED <<history, idx, rolodexVars, convertVars, content, refVars, resolvingErrors, bucketVars, counters,
                   toggleVars, indexCircularReferences, ret, arrays,
                   visitedDefinitions, status, calls>>

\* the bucket a generic circular result goes to
GoesToIgnoredArray(isArray) == IgnoreArray /\ isArray

\* whether the occurrence that led to relative r lies in an array schema
IsArrayRelative(r) == ParentNodeSchemaType[r] = "array"

\* back from the infinite-loop check: the result is recorded
VisitReferenceAfterIcd ==
    /\ At("VisitReference", "afterIcd")
    /\ LET r == Top.relatives[Top.k]
           foundDup == SearchIndexForReferenceByReference(idx.FullDefinition[r])
           isArray == IsArrayRelative(r)
           circRef == CircularReferenceResult(Top.loop, foundDup, Top.i, isArray,
                                              ret, FALSE, "")
       IN  /\ IF GoesToIgnoredArray(isArray)
              THEN /\ ignoredArrayReferences' = Append(ignoredArrayReferences, circRef)
                   /\ UNCHANGED circularReferences
              ELSE /\ circularReferences' = Append(circularReferences, circRef)
                   /\ UNCHANGED ignoredArrayReferences
           /\ Seen' = [Seen EXCEPT ![foundDup] = TRUE]
           /\ Circular' = [Circular EXCEPT ![foundDup] = TRUE]
    /\ stack' = Goto([Top EXCEPT !.pc = "loop", !.k = @ + 1])
    /\ UNCHANGED <<history, idx, rolodexVars, convertVars, content, Resolved, ParentNodeSchemaType, resolvingErrors,
                   ignoredPolyReferences, counters, toggleVars,
                   indexCircularReferences, ret, arrays, visitedDefinitions,
                   status, calls>>

\* a relative that is not on the journey is visited
VisitReferenceDescend ==
    /\ At("VisitReference", "loop")
    /\ Top.k <= Len(Top.relatives)
    /\ LET r == Top.relatives[Top.k]
           original == SearchIndexForReferenceByReference(idx.FullDefinition[r])
       IN  /\ JourneyIndex(Top.journey, idx.FullDefinition[r]) < 0
           /\ stack' = Call([Top EXCEPT !.pc = "afterVisit"],
                            VisitReferenceFrame(original, Top.journey, Top.resolve))
    /\ UNCHANGED <<history, idx, rolodexVars, convertVars, content, refVars, resolvingErrors, bucketVars, counters,
                   toggleVars, indexCircularReferences, ret, arrays,
                   visitedDefinitions, status, calls>>

\* whether the content returned for original is stored in the relative's node
Splices(resolve, original) == resolve /\ ~Circular[original]

\* back from the visit of a relative: "this is where we perform the actual
\* resolving"
VisitReferenceAfterVisit ==
    /\ At("VisitReference", "afterVisit")
    /\ LET r == Top.relatives[Top.k]
           original == SearchIndexForReferenceByReference(idx.FullDefinition[r])
       IN  /\ content' = IF Splices(Top.resolve, original)
                         THEN [content EXCEPT ![idx.Node[r]] = ret]
                         ELSE content
           /\ spliced' = IF Splices(Top.resolve, original)
                         THEN spliced \cup {original} ELSE spliced
           /\ Seen' = [Seen EXCEPT ![r] = TRUE, ![Top.ref] = TRUE]
    /\ stack' = Goto([Top EXCEPT !.pc = "loop", !.k = @ + 1])
    /\ UNCHANGED <<retTypes, choices, visits, firstRun, idx, rolodexVars, convertVars, Resolved, Circular,
                   ParentNodeSchemaType, resolvingErrors, bucketVars, counters, toggleVars, indexCircularReferences, ret,
                   arrays, visitedDefinitions, status, calls>>

\* the return of VisitReference when it marks the reference Seen only
VisitReferenceReturnSeenOnly ==
    /\ At("VisitReference", "loop")
    /\ Top.k > Len(Top.relatives)
    /\ Seen' = [Seen EXCEPT ![Top.ref] = TRUE]
    /\ ret' = content[idx.Node[Top.ref]]
    /\ stack' = Popped
    /\ UNCHANGED <<history, idx, rolodexVars, convertVars, content, Resolved, Circular,
                   ParentNodeSchemaType, resolvingErrors,
                   bucketVars, counters, toggleVars, indexCircularReferences,
                   arrays, visitedDefinitions, status, calls>>

\* all relatives done: the reference is Resolved and Seen
VisitReferenceReturn ==
    /\ At("VisitReference", "loop")
    /\ Top.k > Len(Top.relatives)
    /\ Resolved' = [Resolved EXCEPT ![Top.ref] = TRUE]
    /\ Seen' = [Seen EXCEPT ![Top.ref] = TRUE]
    /\ ret' = content[idx.Node[Top.ref]]
    /\ stack' = Popped
    /\ UNCHANGED <<history, idx, rolodexVars, convertVars, content, Circular, ParentNodeSchemaType, resolvingErrors,
                   bucketVars, counters, toggleVars, indexCircularReferences,
                   arrays, visitedDefinitions, status, calls>>

(***************************************************************************)
(* isInfiniteCircularDependency.  The required references of ref are       *)
(* ranged over in the order of a Go map: any one that is left comes next.  *)
(***************************************************************************)
\* whether r is the reference the check started from
IsInitialRef(initialRef, r) ==
    initialRef # Nil /\ idx.Definition[initialRef] = idx.Definition[r]

\* the loop is over: nothing led back
IcdReturnFalse ==
    /\ At("isInfiniteCircularDependency", "loop")
    /\ Top.todo = {}
    /\ ret' = FALSE
    /\ stack' = Popped
    /\ UNCHANGED <<history, idx, rolodexVars, convertVars, content, refVars, resolvingErrors, bucketVars, counters,
                   toggleVars, indexCircularReferences, arrays, visitedDefinitions,
                   status, calls>>

\* a required reference is the initial one
IcdFound ==
    /\ At("isInfiniteCircularDependency", "loop")
    /\ \E refDefinition \in Top.todo :
          /\ IsInitialRef(Top.initialRef, SearchIndexForReference(refDefinition))
          /\ choices' = Append(choices, refDefinition)
    /\ ret' = TRUE
    /\ stack' = Popped
    /\ UNCHANGED <<spliced, retTypes, visits, firstRun, idx, rolodexVars, convertVars, content, refVars, resolvingErrors, bucketVars, counters,
                   toggleVars, indexCircularReferences, arrays, visitedDefinitions,
                   status, calls>>

\* a required reference is not the initial one: the check goes down into it
IcdRecurse ==
    /\ At("isInfiniteCircularDependency", "loop")
    /\ IcdDepth < MaxIcdDepth
    /\ \E refDefinition \in Top.todo :
          LET r == SearchIndexForReference(refDefinition)
              ir == IF Top.initialRef = Nil THEN Top.ref ELSE Top.initialRef
          IN  /\ ~IsInitialRef(Top.initialRef, r)
              /\ visitedDefinitions' = visitedDefinitions \cup {idx.Definition[r]}
              /\ stack' = Call([Top EXCEPT !.pc = "afterChild",
                                           !.todo = @ \ {refDefinition}],
                               IcdFrame(r, ir))
              /\ choices' = Append(choices, refDefinition)
    /\ UNCHANGED <<spliced, retTypes, visits, firstRun, idx, rolodexVars, convertVars, content, refVars, resolvingErrors, bucketVars, counters,
                   toggleVars, indexCircularReferences, ret, arrays, status, calls>>

\* the recursion is deeper than the model follows it: the goroutine stack
\* runs out and the run never returns
IcdStackOverflow ==
    /\ At("isInfiniteCircularDependency", "loop")
    /\ IcdDepth >= MaxIcdDepth
    /\ \E refDefinition \in Top.todo :
          LET r == SearchIndexForReference(refDefinition)
          IN  ~IsInitialRef(Top.initialRef, r)
    /\ status' = "stack overflow"
    /\ UNCHANGED <<history, idx, rolodexVars, convertVars, content, refVars, resolvingErrors, bucketVars, counters,
                   toggleVars, indexCircularReferences, stack, ret, arrays,
                   visitedDefinitions, calls>>

IcdAfterChild ==
    /\ At("isInfiniteCircularDependency", "afterChild")
    /\ IF ret
       THEN stack' = Popped
       ELSE stack' = Goto([Top EXCEPT !.pc = "loop"])
    /\ UNCHANGED <<history, idx, rolodexVars, convertVars, content, refVars, resolvingErrors, bucketVars, counters,
                   toggleVars, indexCircularReferences, ret, arrays,
                   visitedDefinitions, status, calls>>

(***************************************************************************)
(* extractRelatives: the walk over the Content of a node.  Top.i is the    *)
(* index of the range loop, counted from 0 as in the code.                 *)
(***************************************************************************)
\* the node at index i of the Content of node
ContentAt(node, i) == content[node][i + 1]

\* extractRelatives without its guard
JourneyNeverTooLong(journey) == FALSE

\* "if len(journey) > 100 { return nil }"
JourneyTooLong(journey) == journey.len > MaxJourney

\* the guard at the head of extractRelatives
ExtractRelativesEnter ==
    /\ At("extractRelatives", "enter")
    /\ IF JourneyTooLong(Top.journey)
       THEN /\ ret' = <<>>
            /\ retTypes' = <<>>
            /\ stack' = Popped
       ELSE /\ stack' = Goto([Top EXCEPT !.pc = "loop", !.i = 0])
            /\ UNCHANGED <<ret, retTypes>>
    /\ UNCHANGED <<spliced, choices, visits, firstRun, idx, rolodexVars, convertVars, content, refVars, resolvingErrors, bucketVars, counters,
                   toggleVars, indexCircularReferences, arrays,
                   visitedDefinitions, status, calls>>

InLoop == At("extractRelatives", "loop") /\ Top.i < Len(content[Top.node])

IsKeyPosition(i) == i % 2 = 0
IsRefKeyAt(node, i) == IsKeyPosition(i) /\ idx.Value[ContentAt(node, i)] = RefKey
IsPolyKeyAt(node, i) ==
    /\ IsKeyPosition(i)
    /\ \E kw \in PolyKeywords : idx.Value[ContentAt(node, i)] = <<kw>>

\* a map or a sequence below the node: the walk goes down into it
ExtractRelativesRecurse ==
    /\ InLoop
    /\ LET n == ContentAt(Top.node, Top.i)
       IN  /\ IsNodeMap(idx.Kind, n) \/ IsNodeArray(idx.Kind, n)
           /\ stack' = Call([Top EXCEPT !.pc = "afterRecurse"],
                            ExtractRelativesFrame(Top.ref, n, Top.node, Top.journey,
                                                  Top.resolve))
    /\ UNCHANGED <<history, idx, rolodexVars, convertVars, content, refVars, resolvingErrors, bucketVars, counters,
                   toggleVars, indexCircularReferences, ret, arrays,
                   visitedDefinitions, status, calls>>

ExtractRelativesAfterRecurse ==
    /\ At("extractRelatives", "afterRecurse")
    /\ stack' = Goto([Top EXCEPT !.pc = "loop", !.found = @ \o ret,
                                 !.foundTypes = @ \o retTypes, !.i = @ + 1])
    /\ UNCHANGED <<history, idx, rolodexVars, convertVars, content, refVars, resolvingErrors, bucketVars, counters,
                   toggleVars, indexCircularReferences, ret, arrays,
                   visitedDefinitions, status, calls>>

\* a scalar that is neither a $ref key nor a polymorphic keyword
ExtractRelativesScalar ==
    /\ InLoop
    /\ LET n == ContentAt(Top.node, Top.i)
       IN  /\ IsNodeStringValue(idx.Kind, n)
           /\ ~IsRefKeyAt(Top.node, Top.i)
           /\ ~IsPolyKeyAt(Top.node, Top.i)
    /\ stack' = Goto([Top EXCEPT !.i = @ + 1])
    /\ UNCHANGED <<history, idx, rolodexVars, convertVars, content, refVars, resolvingErrors, bucketVars, counters,
                   toggleVars, indexCircularReferences, ret, arrays,
                   visitedDefinitions, status, calls>>

\* the schema type recorded for a reference found below parent
SchemaTypeOf(parent) ==
    IF parent = 0 THEN ""
    ELSE LET arrayTypevn == FindKeyNodeTop(idx.Value, content[parent], <<"type">>)
         IN  IF arrayTypevn # 0 /\ idx.Value[arrayTypevn] = <<"array">>
             THEN "array" ELSE ""

\* a $ref key whose target is in the index: the target is a relative
ExtractRelativesRef ==
    /\ InLoop
    /\ IsRefKeyAt(Top.node, Top.i)
    /\ IsNodeStringValue(idx.Kind, ContentAt(Top.node, Top.i + 1))
    /\ LET value == idx.Value[ContentAt(Top.node, Top.i + 1)]
           searchRef == LocateGeneric(idx.FullDefinition[Top.ref], value)
           locatedRef == SearchIndexForReferenceByReference(searchRef.FullDefinition)
       IN  /\ locatedRef # Nil
           /\ ParentNodeSchemaType' =
                 [ParentNodeSchemaType EXCEPT ![locatedRef] = SchemaTypeOf(Top.parent)]
           /\ stack' = Goto([Top EXCEPT
                                !.found = Append(@, locatedRef),
                                !.foundTypes = Append(@, SchemaTypeOf(Top.parent)),
                                !.i = @ + 1])
    /\ UNCHANGED <<history, idx, rolodexVars, convertVars, content, Seen, Resolved, Circular, resolvingErrors,
                   bucketVars, counters, toggleVars, indexCircularReferences, ret,
                   arrays, visitedDefinitions, status, calls>>

\* a $ref key whose target is not in the index: an error is recorded
ExtractRelativesMissing ==
    /\ InLoop
    /\ IsRefKeyAt(Top.node, Top.i)
    /\ IsNodeStringValue(idx.Kind, ContentAt(Top.node, Top.i + 1))
    /\ LET n == ContentAt(Top.node, Top.i)
           value == idx.Value[ContentAt(Top.node, Top.i + 1)]
           searchRef == LocateGeneric(idx.FullDefinition[Top.ref], value)
           locatedRef == SearchIndexForReferenceByReference(searchRef.FullDefinition)
       IN  /\ locatedRef = Nil
           /\ resolvingErrors' =
                 Append(resolvingErrors,
                        ResolvingError("cannot resolve reference, it's missing", n, <<>>))
    /\ stack' = Goto([Top EXCEPT !.i = @ + 1])
    /\ UNCHANGED <<history, idx, rolodexVars, convertVars, content, refVars, bucketVars, counters, toggleVars,
                   indexCircularReferences, ret, arrays, visitedDefinitions,
                   status, calls>>

\* what a branch item v of a polymorphic keyword leads to: the Reference it
\* names and whether that is skipped, visited or recorded as circular
IsRefItem(v) == IsNodeMap(idx.Kind, v) /\ IsNodeRefValue(idx.Value, content, v)

PolyObjectTarget(ref, v) ==
    IF IsRefItem(v)
    THEN SearchIndexForReference(
             LocatePolyObject(idx.FullDefinition[ref], RefValueOf(idx.Value, content, v)))
    ELSE Nil

PolyArrayTarget(ref, v) ==
    IF IsRefItem(v)
    THEN SearchIndexForReference(
             LocatePolyArray(idx.FullDefinition[ref], RefValueOf(idx.Value, content, v)))
    ELSE Nil

\* the outcome for a branch item when the Circular flag is not consulted
PolyOutcomeOfAnyReference(mappedRefs, journey) ==
    IF mappedRefs = Nil THEN "skip"
    ELSE IF JourneyIndex(journey, idx.FullDefinition[mappedRefs]) >= 0 THEN "circular"
    ELSE "visit"

PolyOutcome(mappedRefs, journey) ==
    IF mappedRefs = Nil \/ Circular[mappedRefs] THEN "skip"
    ELSE IF JourneyIndex(journey, idx.FullDefinition[mappedRefs]) >= 0 THEN "circular"
    ELSE "visit"

\* the bucket a polymorphic circular result goes to
GoesToIgnoredPoly == IgnorePoly

\* the state after a polymorphic branch item was handled; next is the frame
\* extractRelatives goes on with
PolyBranch(mappedRefs, kw, next) ==
    LET outcome == PolyOutcome(mappedRefs, Top.journey)
        a == AppendSlice(arrays, Top.journey, mappedRefs)
        circRef == CircularReferenceResult(a.slice, mappedRefs, Top.i, FALSE, FALSE,
                                           TRUE, kw)
    IN  CASE outcome = "skip" ->
               /\ stack' = Goto(next)
               /\ UNCHANGED <<Seen, Circular, bucketVars, arrays>>
          [] outcome = "visit" ->
               /\ stack' = Call(next, VisitReferenceFrame(mappedRefs, Top.journey,
                                                          Top.resolve))
               /\ UNCHANGED <<Seen, Circular, bucketVars, arrays>>
          [] outcome = "circular" ->
               /\ stack' = Goto(next)
               /\ arrays' = a.arrays
               /\ Seen' = [Seen EXCEPT ![mappedRefs] = TRUE]
               /\ Circular' = [Circular EXCEPT ![mappedRefs] = TRUE]
               /\ IF GoesToIgnoredPoly
                  THEN /\ ignoredPolyReferences' = Append(ignoredPolyReferences, circRef)
                       /\ UNCHANGED <<circularReferences, ignoredArrayReferences>>
                  ELSE /\ circularReferences' = Append(circularReferences, circRef)
                       /\ UNCHANGED <<ignoredPolyReferences, ignoredArrayReferences>>

PolyKeywordAt(node, i) == idx.Value[ContentAt(node, i)][1]

\* allOf/oneOf/anyOf whose value is not a sequence: the items of an object
ExtractRelativesPolyObject ==
    /\ InLoop
    /\ IsPolyKeyAt(Top.node, Top.i)
    /\ ~IsNodeArray(idx.Kind, ContentAt(Top.node, Top.i + 1))
    /\ LET branch == ContentAt(Top.node, Top.i + 1)
           v == IF IsNodeMap(idx.Kind, branch)
                THEN FindKeyNodeTop(idx.Value, content[branch], <<"items">>)
                ELSE 0
       IN  PolyBranch(PolyObjectTarget(Top.ref, v),
                      PolyKeywordAt(Top.node, Top.i),
                      [Top EXCEPT !.pc = "break"])
    /\ UNCHANGED <<history, idx, rolodexVars, convertVars, content, Resolved, ParentNodeSchemaType, resolvingErrors,
                   counters, toggleVars, indexCircularReferences, ret,
                   visitedDefinitions, status, calls>>

\* allOf/oneOf/anyOf whose value is a sequence: its items, one by one
ExtractRelativesPolyArray ==
    /\ InLoop
    /\ IsPolyKeyAt(Top.node, Top.i)
    /\ IsNodeArray(idx.Kind, ContentAt(Top.node, Top.i + 1))
    /\ LET items == content[ContentAt(Top.node, Top.i + 1)]
       IN  IF Top.q < Len(items)
           THEN PolyBranch(PolyArrayTarget(Top.ref, items[Top.q + 1]),
                           PolyKeywordAt(Top.node, Top.i),
                           [Top EXCEPT !.q = @ + 1])
           ELSE /\ stack' = Goto([Top EXCEPT !.pc = "break"])
                /\ UNCHANGED <<Seen, Circular, bucketVars, arrays>>
    /\ UNCHANGED <<history, idx, rolodexVars, convertVars, content, Resolved, ParentNodeSchemaType, resolvingErrors,
                   counters, toggleVars, indexCircularReferences, ret,
                   visitedDefinitions, status, calls>>

\* the end of the Content, or the break after a polymorphic keyword
ExtractRelativesReturn ==
    /\ \/ At("extractRelatives", "break")
       \/ At("extractRelatives", "loop") /\ Top.i >= Len(content[Top.node])
    /\ counters' = [counters EXCEPT !.relativesSeen = @ + Len(Top.found)]
    /\ ret' = Top.found
    /\ retTypes' = Top.foundTypes
    /\ stack' = Popped
    /\ UNCHANGED <<spliced, choices, visits, firstRun, idx, rolodexVars, convertVars, content, refVars, resolvingErrors, bucketVars, toggleVars,
                   indexCircularReferences, arrays, visitedDefinitions, status, calls>>

(***************************************************************************)
(* The specification.                                                      *)
(***************************************************************************)
Next ==
    \/ NewResolver
    \/ IgnorePolymorphicCircularReferences
    \/ IgnoreArrayCircularReferences
    \/ Resolve
    \/ ResolveReturn
    \/ CheckForCircularReferences
    \/ CheckForCircularReferencesReturn
    \/ VisitIndexMapped
    \/ VisitIndexSchemas
    \/ VisitIndexAfterVisit
    \/ VisitIndexMapEverything
    \/ VisitIndexReturn
    \/ VisitReferenceSeen
    \/ VisitReferenceEnter
    \/ VisitReferenceAfterExtract
    \/ VisitReferenceRevisit
    \/ VisitReferenceSkip
    \/ VisitReferenceAfterIcd
    \/ VisitReferenceDescend
    \/ VisitReferenceAfterVisit
    \/ VisitReferenceReturn
    \/ IcdReturnFalse
    \/ IcdFound
    \/ IcdRecurse
    \/ IcdStackOverflow
    \/ IcdAfterChild
    \/ ExtractRelativesEnter
    \/ ExtractRelativesRecurse
    \/ ExtractRelativesAfterRecurse
    \/ ExtractRelativesScalar
    \/ ExtractRelativesRef
    \/ ExtractRelativesMissing
    \/ ExtractRelativesPolyObject
    \/ ExtractRelativesPolyArray
    \/ ExtractRelativesReturn

Spec == Init /\ [][Next]_vars


(***************************************************************************)
(* The required-reference graph of the index: r has an edge to every       *)
(* Reference that one of its RequiredRefProperties locations names.        *)
(***************************************************************************)
AllRefs == DOMAIN idx.FullDefinition
RequiredEdges(r) ==
    {SearchIndexForReference(d) : d \in idx.RequiredRefProperties[r]} \ {Nil}

RECURSIVE RequiredClosure(_, _)
\* the References reachable from those of S along required edges, S included
RequiredClosure(S, n) ==
    IF n = 0 THEN S
    ELSE RequiredClosure(S \cup UNION {RequiredEdges(r) : r \in S}, n - 1)

\* the References r reaches along one or more required edges
RequiredReach(r) == RequiredClosure(RequiredEdges(r), Cardinality(AllRefs))

\* every result the resolver holds, whichever bucket it went to
AllResults == circularReferences \o ignoredArrayReferences \o ignoredPolyReferences
GenericResults == SelectSeq(AllResults, LAMBDA c : ~c.IsPolymorphicResult)
PolyResults == SelectSeq(AllResults, LAMBDA c : c.IsPolymorphicResult)
InSeq(x, sq) == \E k \in 1..Len(sq) : sq[k] = x

C2_InfiniteIffRequiredCycle ==
    \A k \in 1..Len(GenericResults) :
        LET c == GenericResults[k]
        IN  c.IsInfiniteLoop <=> c.LoopPoint \in RequiredReach(c.LoopPoint)

(***************************************************************************)
(* C3: after Resolve(), every $ref node whose target is in the index and   *)
(* is not Circular has the resolved content of its target as its content.  *)
(***************************************************************************)
LastCall == IF calls = <<>> THEN "" ELSE calls[Len(calls)]
AfterResolve == status = "idle" /\ LastCall = "Resolve"
AfterCheck == status = "idle" /\ LastCall = "CheckForCircularReferences"

\* the Reference a sequenced $ref node points at, Nil if the index has none
TargetOf(sequenced) == SearchIndexForReference(sequenced.Definition)
HasTarget(sequenced) ==
    TargetOf(sequenced) # Nil /\ ~Circular[TargetOf(sequenced)]
HoldsTarget(sequenced) ==
    content[sequenced.Node] = content[idx.Node[TargetOf(sequenced)]]

C3_RefsReplaced ==
    AfterResolve =>
        \A k \in 1..Len(idx.sequenced) :
            HasTarget(idx.sequenced[k]) => HoldsTarget(idx.sequenced[k])

(***************************************************************************)
(* C4: in resolve mode the content of a Circular Reference is never copied *)
(* into another node, neither where VisitReference stores what a visit     *)
(* returned nor in the last loop of visitIndex: a node whose content       *)
(* changes is a $ref node that gets the content of its own target, which   *)
(* is not Circular.  A Reference whose content was copied is never marked  *)
(* Circular afterwards.                                                    *)
(***************************************************************************)
CopiedFrom(n, located) ==
    /\ located # Nil
    /\ ~Circular[located]
    /\ content'[n] = content[idx.Node[located]]

C4_Step ==
    /\ \A r \in spliced' \ spliced : ~Circular[r]
    /\ \A n \in DOMAIN content :
          content'[n] # content[n] =>
              \E k \in 1..Len(idx.sequenced) :
                  /\ idx.sequenced[k].Node = n
                  /\ CopiedFrom(n, TargetOf(idx.sequenced[k]))
    /\ \A r \in spliced : ~Circular[r] => ~Circular'[r]

C4_CircularNeverCopied == [][C4_Step]_vars

\* a Circular Reference was passed over by both places while the content of
\* another one was copied
C4_Witness ==
    /\ AfterResolve
    /\ \E r \in AllRefs : Circular[r] /\ r \notin spliced
    /\ \E k \in 1..Len(idx.sequenced) :
          LET t == TargetOf(idx.sequenced[k])
          IN  /\ t # Nil /\ Circular[t]
              /\ IsNodeRefValue(idx.Value, content, idx.sequenced[k].Node)
    /\ \E k \in 1..Len(idx.sequenced) :
          LET t == TargetOf(idx.sequenced[k])
          IN  /\ t # Nil /\ t \in spliced
              /\ ~IsNodeRefValue(idx.Value, content, idx.sequenced[k].Node)

(***************************************************************************)
(* C5: CheckForCircularReferences() never assigns the content of a node:   *)
(* no step of a run of it changes the content of any node, so the tree is  *)
(* the same after the run as before it.                                    *)
(***************************************************************************)
Running(fn) == status = "running" /\ Len(stack) > 0 /\ stack[1].fn = fn

C5_CheckKeepsContent ==
    [][Running("CheckForCircularReferences") \/ Running("CheckForCircularReferences")'
          => content' = content]_vars

\* a check has found a cycle and every $ref node is as it was written
C5_Witness ==
    /\ AfterCheck
    /\ calls = <<"CheckForCircularReferences">>
    /\ Len(AllResults) > 0
    /\ \E k \in 1..Len(idx.sequenced) : HasTarget(idx.sequenced[k])
    /\ \A k \in 1..Len(idx.sequenced) :
          IsNodeRefValue(idx.Value, content, idx.sequenced[k].Node)

(***************************************************************************)
(* C6: a VisitReference call on a Reference that is Resolved or Seen       *)
(* returns the current content of its node and does nothing else: no       *)
(* relatives are extracted, nothing is visited, no cycle and no error is   *)
(* recorded, no flag and no content changes.  So the body of               *)
(* VisitReference runs on a Reference that is not Resolved, and never in   *)
(* two activations at once: a Reference becomes Resolved at most once.     *)
(***************************************************************************)
InBody(f) == f.fn = "VisitReference" /\ f.pc # "enter"

OneBodyPerReference ==
    /\ \A k \in 1..Len(stack) : InBody(stack[k]) => ~Resolved[stack[k].ref]
    /\ \A j, k \in 1..Len(stack) :
          InBody(stack[j]) /\ InBody(stack[k]) /\ stack[j].ref = stack[k].ref => j = k

C6_Step ==
    /\ At("VisitReference", "enter") /\ (Resolved[Top.ref] \/ Seen[Top.ref]) =>
          /\ ret' = content[idx.Node[Top.ref]]
          /\ stack' = Popped
          /\ counters'.relativesSeen = counters.relativesSeen
          /\ counters'.journeysTaken = counters.journeysTaken
          /\ UNCHANGED <<content, refVars, resolvingErrors, bucketVars, arrays,
                         indexCircularReferences>>
    /\ OneBodyPerReference'
    /\ \A r \in AllRefs : Resolved[r] => Resolved'[r]

C6_VisitIsMemoised == [][C6_Step]_vars

\* a relative that is already Resolved is about to be visited again
C6_Witness ==
    /\ At("VisitReference", "enter")
    /\ Resolved[Top.ref]
    /\ Top.journey.len > 0

(***************************************************************************)
(* C7: after a completed run of Resolve(), a second run of Resolve() on    *)
(* the same index, by the same Resolver or by a new one, changes no node   *)
(* content and appends no result to any bucket.                            *)
(***************************************************************************)
ResolvedBefore ==
    \E j \in 1..(Len(calls) - 1) : calls[j] = "Resolve"

C7_SecondResolveChangesNothing ==
    [][Running("Resolve") /\ ResolvedBefore
          => content' = content /\ UNCHANGED bucketVars]_vars

(***************************************************************************)
(* C8: A refers to B and B to A, both through required fields, with no     *)
(* array, no polymorphic keyword and no other reference between schemas:   *)
(* CheckForCircularReferences() records exactly one result, it has         *)
(* IsInfiniteLoop set, and no error about a missing reference is recorded, *)
(* whichever of A and B the index lists first.                             *)
(***************************************************************************)
ComponentsNode == FindKeyNodeTop(idx.Value, content[1], <<"components">>)
SchemaOccurrences ==
    {k \in 1..Len(idx.sequenced) : idx.sequenced[k].Node > ComponentsNode}

MutualRequired ==
    /\ AllRefs = {"A", "B"}
    /\ idx.RequiredRefProperties["A"] = {idx.FullDefinition["B"]}
    /\ idx.RequiredRefProperties["B"] = {idx.FullDefinition["A"]}
    /\ Cardinality(SchemaOccurrences) = 2
    /\ \A n \in DOMAIN idx.Value :
          /\ idx.Value[n] # <<"array">>
          /\ \A kw \in PolyKeywords : idx.Value[n] # <<kw>>

MissingErrors ==
    SelectSeq(resolvingErrors,
              LAMBDA e : e.ErrorRef = "cannot resolve reference, it's missing")

\* the Resolver has done one run, a check, and holds what it found
FirstCheckDone ==
    AfterCheck /\ calls = <<"CheckForCircularReferences">> /\ ~FreshResolver

C8_MutualRequiredIsOneInfiniteLoop ==
    FirstCheckDone /\ MutualRequired =>
        /\ Len(AllResults) = 1
        /\ Len(circularReferences) = 1
        /\ circularReferences[1].IsInfiniteLoop
        /\ MissingErrors = <<>>

\* the check is done on the document in which the index lists A first
C8_Witness ==
    /\ FirstCheckDone
    /\ MutualRequired
    /\ idx.mapped[1] = "A"
    /\ Len(circularReferences) = 1

(***************************************************************************)
(* C9: when a revisit is detected through a $ref whose enclosing schema    *)
(* has type array, the result that is recorded has IsArrayResult set; it   *)
(* is appended to the ignored array results and not to the circular        *)
(* references if IgnoreArrayCircularReferences() was called, and to the    *)
(* circular references otherwise.                                          *)
(***************************************************************************)
Last(sq) == sq[Len(sq)]

C9_Step ==
    At("VisitReference", "afterIcd") /\ Top.relTypes[Top.k] = "array" =>
        IF IgnoreArray
        THEN /\ Len(ignoredArrayReferences') = Len(ignoredArrayReferences) + 1
             /\ Last(ignoredArrayReferences').IsArrayResult
             /\ circularReferences' = circularReferences
        ELSE /\ Len(circularReferences') = Len(circularReferences) + 1
             /\ Last(circularReferences').IsArrayResult
             /\ ignoredArrayReferences' = ignoredArrayReferences

C9_ArrayRevisitIsArrayResult == [][C9_Step]_vars

(***************************************************************************)
(* C10: when an item of a oneOf, anyOf or allOf branch is a $ref whose     *)
(* target is on the current journey, a result with IsPolymorphicResult set *)
(* and the keyword as its PolymorphicType is recorded: in the ignored      *)
(* polymorphic results if IgnorePolymorphicCircularReferences() was        *)
(* called, in the circular references otherwise.                           *)
(***************************************************************************)
\* the location of the file a Reference lies in
FileOf(ref) ==
    SubSeq(idx.FullDefinition[ref], 1,
           Len(idx.FullDefinition[ref]) - Len(idx.Definition[ref]))

\* the Reference a $ref string written inside ref denotes
DenotedBy(ref, raw) == SearchIndexForReference(Canonical(FileOf(ref), raw))

\* the branch item the walk is about to look at, 0 if there is none
PolyItem ==
    IF ~(InLoop /\ IsPolyKeyAt(Top.node, Top.i)) THEN 0
    ELSE LET branch == ContentAt(Top.node, Top.i + 1)
         IN  IF IsNodeArray(idx.Kind, branch)
             THEN IF Top.q < Len(content[branch])
                  THEN content[branch][Top.q + 1] ELSE 0
             ELSE IF IsNodeMap(idx.Kind, branch)
                  THEN FindKeyNodeTop(idx.Value, content[branch], <<"items">>)
                  ELSE 0

PolyItemOnJourney ==
    /\ PolyItem # 0
    /\ IsNodeMap(idx.Kind, PolyItem)
    /\ IsNodeRefValue(idx.Value, content, PolyItem)
    /\ LET t == DenotedBy(Top.ref, RefValueOf(idx.Value, content, PolyItem))
       IN  t # Nil /\ JourneyIndex(Top.journey, idx.FullDefinition[t]) >= 0

IsPolyResultOf(c, t, kw) ==
    c.IsPolymorphicResult /\ c.PolymorphicType = kw /\ c.LoopPoint = t

C10_Step ==
    PolyItemOnJourney =>
        LET t == DenotedBy(Top.ref, RefValueOf(idx.Value, content, PolyItem))
            kw == PolyKeywordAt(Top.node, Top.i)
        IN  IF IgnorePoly
            THEN /\ Len(ignoredPolyReferences') = Len(ignoredPolyReferences) + 1
                 /\ IsPolyResultOf(Last(ignoredPolyReferences'), t, kw)
                 /\ circularReferences' = circularReferences
            ELSE /\ Len(circularReferences') = Len(circularReferences) + 1
                 /\ IsPolyResultOf(Last(circularReferences'), t, kw)
                 /\ ignoredPolyReferences' = ignoredPolyReferences

C10_PolyRevisitIsRecorded == [][C10_Step]_vars

(***************************************************************************)
(* C11: with IgnoreArrayCircularReferences() or                            *)
(* IgnorePolymorphicCircularReferences() called before the run, a revisit  *)
(* of the matching kind adds nothing to the circular references, from      *)
(* which alone the errors of a run are made, also when the loop is         *)
(* infinite; its result is appended to the ignored bucket of its kind and  *)
(* stays there for as long as the Resolver lives.                          *)
(***************************************************************************)
IsPrefix(s, t) == Len(s) <= Len(t) /\ SubSeq(t, 1, Len(s)) = s

ArrayRevisit == At("VisitReference", "afterIcd") /\ Top.relTypes[Top.k] = "array"

C11_Step ==
    /\ ArrayRevisit /\ IgnoreArray =>
          /\ circularReferences' = circularReferences
          /\ Len(ignoredArrayReferences') = Len(ignoredArrayReferences) + 1
    /\ PolyItemOnJourney /\ IgnorePoly =>
          /\ circularReferences' = circularReferences
          /\ Len(ignoredPolyReferences') = Len(ignoredPolyReferences) + 1
    /\ ~FreshResolver' =>
          /\ IsPrefix(ignoredArrayReferences, ignoredArrayReferences')
          /\ IsPrefix(ignoredPolyReferences, ignoredPolyReferences')
    /\ \A k \in (Len(resolvingErrors) + 1)..Len(resolvingErrors') :
          resolvingErrors'[k].ErrorRef = "infinite circular reference detected" =>
              \E j \in 1..Len(circularReferences) :
                  idx.Node[circularReferences[j].LoopPoint] = resolvingErrors'[k].Node

C11_IgnoredCyclesGiveNoError == [][C11_Step]_vars

(***************************************************************************)
(* C12: when the first run on an index is over, every $ref below a         *)
(* component schema whose target the index does not hold has exactly one   *)
(* missing-reference error, with a node of that $ref as its Node, and      *)
(* every component schema of the document has been visited all the same.   *)
(***************************************************************************)
FirstRunDone == status = "idle" /\ Len(calls) = 1 /\ ~FreshResolver

MissingOccurrences ==
    {k \in SchemaOccurrences : TargetOf(idx.sequenced[k]) = Nil}

\* the missing-reference errors recorded at the $ref held by node holder
MissingErrorsAt(holder) ==
    SelectSeq(MissingErrors,
              LAMBDA e : e.Node = holder
                         \/ \E j \in 1..Len(content[holder]) : content[holder][j] = e.Node)

C12_OneErrorPerMissingRef ==
    FirstRunDone =>
        /\ \A k \in MissingOccurrences :
              Len(MissingErrorsAt(idx.sequenced[k].Node)) = 1
        /\ \A r \in idx.schemas : Resolved[r]

(***************************************************************************)
(* C13: the sequence a first Resolve() or CheckForCircularReferences()     *)
(* returns holds one infinite-circular-reference error for every result of *)
(* the circular references that has IsInfiniteLoop set, in their order,    *)
(* each linked to its result; results that are not infinite have no error, *)
(* and every other error of the sequence is a missing-reference error.     *)
(***************************************************************************)
InfiniteErrors(errs) ==
    SelectSeq(errs, LAMBDA e : e.ErrorRef = "infinite circular reference detected")
InfiniteResults == SelectSeq(circularReferences, LAMBDA c : c.IsInfiniteLoop)

C13_ErrorsOfARun ==
    FirstRunDone =>
        /\ Len(InfiniteErrors(ret)) = Len(InfiniteResults)
        /\ \A k \in 1..Len(InfiniteResults) :
              /\ InfiniteErrors(ret)[k].Node = idx.Node[InfiniteResults[k].LoopPoint]
              /\ InfiniteErrors(ret)[k].CircularReference = <<InfiniteResults[k]>>
        /\ \A k \in 1..Len(ret) :
              ret[k].ErrorRef \in {"infinite circular reference detected",
                                   "cannot resolve reference, it's missing"}

(***************************************************************************)
(* Two runs from the same initial index.  The flags of the References and  *)
(* the content of the nodes live on the index, so the second run needs an  *)
(* index of its own: NewSpecIndex builds the index of the same document    *)
(* again, with a new Resolver on it, and keeps what the run on the first   *)
(* index recorded.                                                         *)
(***************************************************************************)
\* the results of a bucket, each with the References of its journey
Recorded(circs) ==
    [k \in 1..Len(circs) |-> [circs[k] EXCEPT !.Journey = Elems(arrays, @)]]

RunRecord ==
    [call |-> LastCall, toggles |-> toggleVars, choices |-> choices,
     visits |-> visits,
     circularReferences |-> Recorded(circularReferences),
     ignoredArrayReferences |-> Recorded(ignoredArrayReferences),
     ignoredPolyReferences |-> Recorded(ignoredPolyReferences),
     missing |-> MissingErrors]

NewSpecIndex ==
    /\ FirstRunDone /\ firstRun = <<>>
    /\ firstRun' = <<RunRecord>>
    /\ content' = idx.Content
    /\ Seen' = [r \in AllRefs |-> FALSE]
    /\ Resolved' = [r \in AllRefs |-> FALSE]
    /\ Circular' = [r \in AllRefs |-> FALSE]
    /\ ParentNodeSchemaType' = [r \in AllRefs |-> ""]
    /\ resolvingErrors' = <<>>
    /\ circularReferences' = <<>>
    /\ ignoredPolyReferences' = <<>>
    /\ ignoredArrayReferences' = <<>>
    /\ counters' = [referencesVisited |-> 0, indexesVisited |-> 0,
                    journeysTaken |-> 0, relativesSeen |-> 0]
    /\ IgnorePoly' = FALSE
    /\ IgnoreArray' = FALSE
    /\ indexCircularReferences' = <<>>
    /\ ret' = <<>>
    /\ arrays' = <<>>
    /\ visitedDefinitions' = {}
    /\ spliced' = {}
    /\ retTypes' = <<>>
    /\ choices' = <<>>
    /\ visits' = <<>>
    /\ UNCHANGED <<idx, rolodexVars, convertVars, stack, status, calls>>

TwinNext == Next \/ NewSpecIndex

\* the documents the two runs are compared on; on the last one
\* isInfiniteCircularDependency does not return
TwinDocs ==
    ArrayDocs \cup PolyDocs \cup MissingDocs \cup CycleDocs \cup
    {Doc("bare", <<>>, <<Schema("A", <<Entry("req", "A", ""), Entry("req", "B", "")>>),
                         Schema("B", <<Entry("req", "B", "")>>)>>, <<>>)}

TwinInit == \E d \in TwinDocs : InitOn(d)

TwinSpec == TwinInit /\ [][TwinNext]_vars

(***************************************************************************)
(* C14: a CheckForCircularReferences() run and a Resolve() run that start  *)
(* from the same initial index, with the same toggles and the same order   *)
(* of the Go maps, record the same results, with the same journey, loop    *)
(* point and classification, in the same buckets, and the same             *)
(* missing-reference errors; the Check run leaves the content of every     *)
(* node as the document has it.                                            *)
(***************************************************************************)
SecondRunDone ==
    status = "idle" /\ Len(calls) = 2 /\ firstRun # <<>> /\ ~FreshResolver

SameStart ==
    /\ firstRun[1].call # LastCall
    /\ firstRun[1].toggles = toggleVars
    /\ firstRun[1].choices = choices

HasJourney(f) == f.fn \in {"VisitReference", "extractRelatives"}
TooLong(f) == HasJourney(f) /\ f.journey.len > MaxJourney

JourneyWithinBound ==
    \A k \in 1..Len(stack) :
        HasJourney(stack[k]) => stack[k].journey.len <= MaxJourney + 1

C15_Step ==
    /\ JourneyWithinBound'
    /\ status = "running" /\ Len(stack) > 0 /\ TooLong(Top) =>
          /\ Len(stack') <= Len(stack)
          /\ counters'.relativesSeen = counters.relativesSeen
          /\ UNCHANGED <<resolvingErrors, bucketVars, content, Circular,
                         ParentNodeSchemaType>>
    /\ At("extractRelatives", "enter") /\ TooLong(Top) =>
          ret' = <<>> /\ stack' = Popped

C15_JourneyIsCut == [][C15_Step]_vars

\* the reference at which the journey was cut is done without relatives,
\* although its schema holds a $ref
C15_Witness ==
    /\ At("VisitReference", "loop")
    /\ TooLong(Top)
    /\ Top.relatives = <<>>
    /\ \E j \in 1..Len(content[idx.Node[Top.ref]]) :
          IsRefItem(content[idx.Node[Top.ref]][j])

(***************************************************************************)
(* C16: when CheckForCircularReferences() returns, the circular references *)
(* stored on the index are those of the Resolver, and a result that is     *)
(* stored on the index is still stored on it after every later step, also  *)
(* after a later CheckForCircularReferences() by the same or by a new      *)
(* Resolver.                                                               *)
(***************************************************************************)
C16_Step ==
    /\ At("CheckForCircularReferences", "afterVisitIndex") =>
          indexCircularReferences' = circularReferences'
    /\ \A k \in 1..Len(indexCircularReferences) :
          InSeq(indexCircularReferences[k], indexCircularReferences')

C16_IndexKeepsItsCycles == [][C16_Step]_vars

(***************************************************************************)
(* The Rolodex.                                                            *)
(*                                                                         *)
(* A registered filesystem is either a *LocalFS with its Files, each with  *)
(* content that parses or does not, or another implementation of fs.FS.    *)
(* The goroutines of an IndexTheRolodex() call are named by the number of  *)
(* the call and the root, <<n, root>>, and the goroutine of a file by      *)
(* <<n, root, k>> as well; the three channels of a call are its own, so    *)
(* the caller takes only what the goroutines of the call under way send.   *)
(* A send on one of the unbuffered channels and the receive in the select  *)
(* are one step.                                                           *)
(***************************************************************************)
BaseDirs == {<<Slash, "a">>, <<"b">>}
BaseURLs == {<<HttpHost>>}
LocalFSs == {[type |-> "LocalFS", Files |-> f] :
                f \in UNION {[1..n -> {"valid", "invalid"}] : n \in 0..MaxFiles}}
RemoteFSs == {[type |-> "RemoteFS"]}

RECURSIVE SumOfFiles(_, _)
SumOfFiles(m, roots) ==
    IF roots = {} THEN 0
    ELSE LET k == CHOOSE r \in roots : TRUE
         IN  Len(m[k].Files) + SumOfFiles(m, roots \ {k})
\* the number of files of the local filesystems m
FilesIn(m) == SumOfFiles(m, DOMAIN m)

\* roots are registered before the first IndexTheRolodex() and Open()
AddLocalFS(baseDir, fileSystem) ==
    /\ rolodexPc = "idle"
    /\ indexings = 0
    /\ opened = <<>>
    /\ LET absBaseDir == FilepathAbs(baseDir)
       IN  /\ localFS' = (absBaseDir :> fileSystem) @@ localFS
           /\ registered' = IF absBaseDir \in DOMAIN localFS THEN registered
                             ELSE Append(registered, absBaseDir)
    /\ FilesIn(localFS') <= MaxFiles
    /\ UNCHANGED <<resolverVars, convertVars, opened, handles, builds, indexReturn, indexCalls, remoteFS, indexed, indexingCompleted, totalToIndex,
                   caughtErrors, indexBuildQueue, tasks, wg, rolodexPc, indexings,
                   returned>>

AddRemoteFS(baseURL, fileSystem) ==
    /\ rolodexPc = "idle"
    /\ indexings = 0
    /\ remoteFS' = (baseURL :> fileSystem) @@ remoteFS
    /\ UNCHANGED <<resolverVars, convertVars, openVars, localFS, indexed, indexingCompleted, totalToIndex,
                   caughtErrors, indexBuildQueue, tasks, wg, rolodexPc, indexings,
                   returned>>

\* the filesystem the goroutine t was started with
FsOf(t) == IF t[2] \in DOMAIN localFS THEN localFS[t[2]] ELSE remoteFS[t[2]]
\* the file the goroutine t was started with
IdxFileOf(t) == <<t[2], t[3]>>

\* idxFile.Index(&copiedConfig): the Index of the file, or the error of
\* ExtractSpecInfo; the Index of a file is named by the file
Index(f) ==
    IF localFS[f[1]].Files[f[2]] = "valid"
    THEN [idx |-> f, err |-> Nil]
    ELSE [idx |-> Nil, err |-> <<"error", f>>]

\* errors.Join(errs...)
ErrorsJoin(errs) == IF errs = <<>> THEN Nil ELSE errs

\* the call, up to the gather loop: the guard, the three channels, one
\* goroutine for every filesystem
IndexTheRolodex ==
    /\ rolodexPc = "idle"
    /\ indexings < MaxIndexings
    /\ indexings' = indexings + 1
    /\ IF indexed
       THEN /\ returned' = Append(returned, Nil)
            /\ UNCHANGED <<indexingCompleted, totalToIndex, caughtErrors,
                           indexBuildQueue, tasks, rolodexPc>>
       ELSE /\ caughtErrors' = <<>>
            /\ indexBuildQueue' = <<>>
            /\ indexingCompleted' = 0
            /\ totalToIndex' = Cardinality(DOMAIN localFS) + Cardinality(DOMAIN remoteFS)
            /\ tasks' = [t \in {<<indexings', k>> : k \in DOMAIN localFS \cup DOMAIN remoteFS}
                            |-> "start"] @@ tasks
            /\ rolodexPc' = "gather"
            /\ UNCHANGED returned
    /\ UNCHANGED <<resolverVars, convertVars, openVars, localFS, remoteFS, indexed, wg>>

\* indexRolodexFile on a *LocalFS: one goroutine for every file
IndexRolodexFileLocal(t) ==
    /\ Len(t) = 2
    /\ tasks[t] = "start"
    /\ FsOf(t).type = "LocalFS"
    /\ wg' = (t :> Len(FsOf(t).Files)) @@ wg
    /\ tasks' = [f \in {t \o <<k>> : k \in DOMAIN FsOf(t).Files} |-> "start"]
                    @@ [tasks EXCEPT ![t] = "wait"]
    /\ UNCHANGED <<resolverVars, convertVars, openVars, localFS, remoteFS, indexed, indexingCompleted,
                   totalToIndex, caughtErrors, indexBuildQueue, rolodexPc, indexings,
                   returned>>

\* indexRolodexFile on any other filesystem: it returns
IndexRolodexFileOther(t) ==
    /\ Len(t) = 2
    /\ tasks[t] = "start"
    /\ FsOf(t).type # "LocalFS"
    /\ tasks' = [tasks EXCEPT ![t] = "returned"]
    /\ UNCHANGED <<resolverVars, convertVars, openVars, localFS, remoteFS, indexed, indexingCompleted,
                   totalToIndex, caughtErrors, indexBuildQueue, wg, rolodexPc,
                   indexings, returned>>

\* wg.Wait() that does not wait for the counter to reach zero
WgWaitNotWaiting(t) ==
    /\ Len(t) = 2
    /\ tasks[t] = "wait"
    /\ tasks' = [tasks EXCEPT ![t] = "doneChan"]
    /\ UNCHANGED <<resolverVars, convertVars, openVars, localFS, remoteFS, indexed, indexingCompleted,
                   totalToIndex, caughtErrors, indexBuildQueue, wg, rolodexPc,
                   indexings, returned>>

\* wg.Wait() returns; the goroutine goes on to doneChan <- true
WgWait(t) ==
    /\ Len(t) = 2
    /\ tasks[t] = "wait"
    /\ wg[t] = 0
    /\ tasks' = [tasks EXCEPT ![t] = "doneChan"]
    /\ UNCHANGED <<resolverVars, convertVars, openVars, localFS, remoteFS, indexed, indexingCompleted,
                   totalToIndex, caughtErrors, indexBuildQueue, wg, rolodexPc,
                   indexings, returned>>

\* indexFileFunc: the file is indexed; the goroutine goes on to errChan <- err
\* if that failed and to indexChan <- idx if not
IndexFileFunc(t) ==
    /\ Len(t) = 3
    /\ tasks[t] = "start"
    /\ tasks' = [tasks EXCEPT
                    ![t] = IF Index(IdxFileOf(t)).err # Nil THEN "errChan" ELSE "indexChan"]
    /\ UNCHANGED <<resolverVars, convertVars, openVars, localFS, remoteFS, indexed, indexingCompleted,
                   totalToIndex, caughtErrors, indexBuildQueue, wg, rolodexPc,
                   indexings, returned>>

\* the deferred wg.Done() of indexFileFunc
WgDone(t) ==
    /\ Len(t) = 3
    /\ tasks[t] = "deferred"
    /\ tasks' = [tasks EXCEPT ![t] = "returned"]
    /\ wg' = [wg EXCEPT ![<<t[1], t[2]>>] = @ - 1]
    /\ UNCHANGED <<resolverVars, convertVars, openVars, localFS, remoteFS, indexed, indexingCompleted,
                   totalToIndex, caughtErrors, indexBuildQueue, rolodexPc, indexings,
                   returned>>

\* the caller is in the select of the gather loop of the call t belongs to
Gathering(t) ==
    /\ rolodexPc = "gather"
    /\ indexingCompleted < totalToIndex
    /\ t[1] = indexings

\* case <-doneChan
ReceiveDone(t) ==
    /\ Gathering(t)
    /\ tasks[t] = "doneChan"
    /\ tasks' = [tasks EXCEPT ![t] = "returned"]
    /\ indexingCompleted' = indexingCompleted + 1
    /\ UNCHANGED <<resolverVars, convertVars, openVars, localFS, remoteFS, indexed, totalToIndex,
                   caughtErrors, indexBuildQueue, wg, rolodexPc, indexings, returned>>

\* case err := <-errChan
ReceiveErr(t) ==
    /\ Gathering(t)
    /\ tasks[t] = "errChan"
    /\ tasks' = [tasks EXCEPT ![t] = "indexChan"]
    /\ indexingCompleted' = indexingCompleted + 1
    /\ caughtErrors' = Append(caughtErrors, Index(IdxFileOf(t)).err)
    /\ UNCHANGED <<resolverVars, convertVars, openVars, localFS, remoteFS, indexed, totalToIndex,
                   indexBuildQueue, wg, rolodexPc, indexings, returned>>

\* case idx := <-indexChan
ReceiveIdx(t) ==
    /\ Gathering(t)
    /\ tasks[t] = "indexChan"
    /\ tasks' = [tasks EXCEPT ![t] = "deferred"]
    /\ indexBuildQueue' = Append(indexBuildQueue, Index(IdxFileOf(t)).idx)
    /\ UNCHANGED <<resolverVars, convertVars, openVars, localFS, remoteFS, indexed, indexingCompleted,
                   totalToIndex, caughtErrors, wg, rolodexPc, indexings, returned>>

\* the gather loop is over: the call returns the joined errors
IndexTheRolodexReturn ==
    /\ rolodexPc = "gather"
    /\ ~(indexingCompleted < totalToIndex)
    /\ rolodexPc' = "idle"
    /\ returned' = Append(returned, ErrorsJoin(caughtErrors))
    /\ UNCHANGED <<resolverVars, convertVars, openVars, localFS, remoteFS, indexed, indexingCompleted,
                   totalToIndex, caughtErrors, indexBuildQueue, tasks, wg, indexings>>

\* the steps of the goroutines and of the caller inside IndexTheRolodex()
RolodexStep ==
    \/ \E t \in DOMAIN tasks : IndexRolodexFileLocal(t)
    \/ \E t \in DOMAIN tasks : IndexRolodexFileOther(t)
    \/ \E t \in DOMAIN tasks : WgWait(t)
    \/ \E t \in DOMAIN tasks : IndexFileFunc(t)
    \/ \E t \in DOMAIN tasks : WgDone(t)
    \/ \E t \in DOMAIN tasks : ReceiveDone(t)
    \/ \E t \in DOMAIN tasks : ReceiveErr(t)
    \/ \E t \in DOMAIN tasks : ReceiveIdx(t)
    \/ IndexTheRolodexReturn

RolodexNext ==
    \/ \E baseDir \in BaseDirs, fileSystem \in LocalFSs : AddLocalFS(baseDir, fileSystem)
    \/ \E baseURL \in BaseURLs, fileSystem \in RemoteFSs : AddRemoteFS(baseURL, fileSystem)
    \/ IndexTheRolodex
    \/ RolodexStep

\* the Rolodex on its own: the index configuration holds no document
RolodexInit == InitOn(Doc("bare", <<>>, <<>>, <<>>))

RolodexSpec == RolodexInit /\ [][RolodexNext]_vars

\* the Go scheduler runs a goroutine that can take a step
FairRolodexSpec == RolodexSpec /\ WF_vars(RolodexStep)

(***************************************************************************)
(* C17: after IndexTheRolodex() has completed once on a Rolodex, a later   *)
(* IndexTheRolodex() on it is a no-op: no goroutine is started by a call   *)
(* after the first, and every call after the first returns nil.            *)
(***************************************************************************)
C17_LaterIndexingIsNoOp ==
    /\ \A t \in DOMAIN tasks : t[1] = 1
    /\ \A k \in 2..Len(returned) : returned[k] = Nil

(***************************************************************************)
(* C18: under fair scheduling every IndexTheRolodex() that has started     *)
(* returns, whatever local and remote filesystems are registered.          *)
(***************************************************************************)
C18_IndexTheRolodexReturns == (rolodexPc = "gather") ~> (rolodexPc = "idle")

(***************************************************************************)
(* C19: once IndexTheRolodex() has returned, every goroutine of the call   *)
(* has returned: none of them is running or blocked on a channel.          *)
(***************************************************************************)
HasReturned == rolodexPc = "idle" /\ indexings > 0
C19_NoTaskOutlivesTheCall ==
    HasReturned => \A t \in DOMAIN tasks : t[1] = indexings => tasks[t] = "returned"

(***************************************************************************)
(* C20: if every file of every local filesystem parses, IndexTheRolodex()  *)
(* returns nil and has gathered the Index of every file exactly once and   *)
(* nothing else.                                                           *)
(***************************************************************************)
AllFiles == {f \in (DOMAIN localFS) \X (1..MaxFiles) : f[2] \in DOMAIN localFS[f[1]].Files}
EveryFileIsValid == \A f \in AllFiles : localFS[f[1]].Files[f[2]] = "valid"
C20_OneIndexPerFile ==
    HasReturned /\ EveryFileIsValid
    => /\ returned[Len(returned)] = Nil
       /\ Len(indexBuildQueue) = Cardinality(AllFiles)
       /\ \A f \in AllFiles : \E k \in 1..Len(indexBuildQueue) : indexBuildQueue[k] = f
       /\ \A k \in 1..Len(indexBuildQueue) : indexBuildQueue[k] # Nil
C20_Witness ==
    /\ HasReturned
    /\ EveryFileIsValid
    /\ Cardinality(AllFiles) = MaxFiles
    /\ Cardinality(DOMAIN localFS) = 2
    /\ Len(indexBuildQueue) = MaxFiles

(***************************************************************************)
(* C21: when IndexTheRolodex() has returned, it has gathered the Index of  *)
(* every valid file exactly once and no nil Index, and what it returned    *)
(* holds the error of every invalid file exactly once (nil if there is     *)
(* none), whatever the interleaving of the goroutines.                     *)
(***************************************************************************)
ValidFiles == {f \in AllFiles : localFS[f[1]].Files[f[2]] = "valid"}
InvalidFiles == AllFiles \ ValidFiles
Occurrences(x, sq) == Cardinality({k \in 1..Len(sq) : sq[k] = x})
C21_FailuresDoNotStopSiblings ==
    HasReturned
    => /\ \A f \in ValidFiles : Occurrences(Index(f).idx, indexBuildQueue) = 1
       /\ Len(indexBuildQueue) = Cardinality(ValidFiles)
       /\ Occurrences(Nil, indexBuildQueue) = 0
       /\ returned[Len(returned)] =
              IF InvalidFiles = {} THEN Nil ELSE caughtErrors
       /\ \A f \in InvalidFiles : Occurrences(Index(f).err, caughtErrors) = 1
       /\ Len(caughtErrors) = Cardinality(InvalidFiles)

(***************************************************************************)
(* Rolodex.Open and rolodexFile.Index.                                     *)
(*                                                                         *)
(* The k-th file of a filesystem has the name FileNames[k]; a filesystem   *)
(* opens it by that name and by its full path under the root.  A root is   *)
(* a *LocalFS, whose Open gives a *localRolodexFile around a *LocalFile,   *)
(* or a plain fs.FS, whose files Open reads; the content of a file is      *)
(* valid, invalid or empty.  The loop of Open ranges over a Go map: it     *)
(* takes the roots in any order.                                           *)
(***************************************************************************)
FileNames == <<"x", "y", "z", "w">>
Contents == {"valid", "invalid", "empty"}
OpenFSs == {[type |-> ty, Files |-> f] :
               ty \in {"LocalFS", "FS"},
               f \in UNION {[1..n -> Contents] : n \in 0..MaxFiles}}
Locations == {<<"x">>, <<"y">>, <<Slash, "a", Slash, "x">>, <<HttpHost, "x">>}

\* the full path of the n-th file of the root k
FullPath(k, n) == FilepathJoin(k, <<FileNames[n]>>)

\* v.Open(name) on the filesystem v of the root k: the number of the file
\* it opens, 0 if it returns an error
FsOpen(k, v, name) ==
    LET hits == {n \in DOMAIN v.Files : FullPath(k, n) = name \/ <<FileNames[n]>> = name}
    IN  IF hits = {} THEN 0 ELSE CHOOSE n \in hits : TRUE

\* the orders in which a range over a Go map with the keys S can go
Orders(S) == {o \in [1..Cardinality(S) -> S] : \A i, j \in DOMAIN o : i # j => o[i] # o[j]}

RECURSIVE OpenLoop(_, _, _, _)
\* the loop of Open over the roots order[i..], with the errors so far
OpenLoop(order, i, errorStack, location) ==
    IF i > Len(order) THEN [localFile |-> <<>>, errorStack |-> errorStack]
    ELSE
    LET k == order[i]
        v == localFS[k]
        isUrl == HasPrefixHttp(location)
        fileLookup == IF IsAbs(location) THEN location
                      ELSE FilepathAbs(FilepathJoin(k, location))
        f == IF FsOpen(k, v, fileLookup) # 0 THEN FsOpen(k, v, fileLookup)
             ELSE FsOpen(k, v, location)
    IN  IF isUrl THEN OpenLoop(order, i + 1, errorStack, location)
        ELSE IF f = 0
        THEN OpenLoop(order, i + 1, Append(errorStack, <<"not found", k, location>>), location)
        ELSE IF v.type = "LocalFS"
        THEN [localFile |-> <<[root |-> k, file |-> f, fullPath |-> FullPath(k, f),
                               data |-> v.Files[f]]>>,
              errorStack |-> errorStack]
        ELSE IF v.Files[f] # "empty"
        THEN [localFile |-> <<[root |-> k, file |-> f, fullPath |-> fileLookup,
                               data |-> v.Files[f]]>>,
              errorStack |-> errorStack]
        ELSE OpenLoop(order, i + 1, errorStack, location)

\* Open(location): the rolodexFile it returns is a new one, with no index.
\* A nil file is <<>>, a file <<f>>; err holds the errors errors.Join joins,
\* and is nil when it holds none
Open(location) ==
    /\ rolodexPc = "idle"
    /\ Len(opened) < MaxOpens
    /\ \E order \in Orders(DOMAIN localFS) :
          LET r == OpenLoop(order, 1, <<>>, location)
          IN  /\ opened' = Append(opened, [location |-> location, order |-> order,
                                           file |-> r.localFile,
                                           err |-> r.errorStack])
              /\ handles' = IF r.localFile = <<>> THEN handles
                            ELSE Append(handles, [localFile |-> r.localFile[1],
                                                  index |-> <<>>])
    /\ UNCHANGED <<resolverVars, convertVars, localFS, remoteFS, indexed, indexingCompleted,
                   totalToIndex, caughtErrors, indexBuildQueue, tasks, wg, rolodexPc,
                   indexings, returned, registered, builds, indexReturn,
                   indexCalls>>

\* rf.Index(config) on the h-th rolodexFile: the Index it holds, or the one
\* built from the content of the file, which it then holds.  A nil Index
\* and a nil error are <<>>
RolodexFileIndex(h) ==
    /\ rolodexPc = "idle"
    /\ Len(builds) < MaxBuilds
    /\ LET rf == handles[h]
           id == <<rf.localFile.root, rf.localFile.file>>
       IN  IF rf.index # <<>>
           THEN /\ indexReturn' = <<[rf |-> h, idx |-> rf.index, err |-> <<>>]>>
                /\ UNCHANGED <<handles, builds>>
           ELSE /\ builds' = Append(builds, id)
                /\ IF rf.localFile.data = "valid"
                   THEN /\ handles' = [handles EXCEPT ![h].index = <<id, Len(builds')>>]
                        /\ indexReturn' = <<[rf |-> h, idx |-> <<id, Len(builds')>>,
                                             err |-> <<>>]>>
                   ELSE /\ indexReturn' = <<[rf |-> h, idx |-> <<>>,
                                             err |-> <<"error", id>>]>>
                        /\ UNCHANGED handles
    /\ UNCHANGED <<resolverVars, convertVars, localFS, remoteFS, indexed, indexingCompleted,
                   totalToIndex, caughtErrors, indexBuildQueue, tasks, wg, rolodexPc,
                   indexings, returned, registered, opened, indexCalls>>

OpenNext ==
    \/ \E baseDir \in BaseDirs, fileSystem \in OpenFSs : AddLocalFS(baseDir, fileSystem)
    \/ \E location \in Locations : Open(location)
    \/ \E h \in DOMAIN handles : RolodexFileIndex(h)

OpenSpec == RolodexInit /\ [][OpenNext]_vars

(***************************************************************************)
(* C22: with two local roots registered, Open of a relative location that  *)
(* exists in exactly one of them returns a file, whichever root holds it   *)
(* and in whichever order the roots are tried.                             *)
(***************************************************************************)
IsRelative(location) == ~IsAbs(location) /\ ~HasPrefixHttp(location)
\* the roots that have a file of the name location
RootsHolding(location) ==
    {k \in DOMAIN localFS : \E n \in DOMAIN localFS[k].Files : <<FileNames[n]>> = location}
C22_OpenFindsTheOneRoot ==
    \A i \in DOMAIN opened :
        /\ Cardinality(DOMAIN localFS) = 2
        /\ IsRelative(opened[i].location)
        /\ Cardinality(RootsHolding(opened[i].location)) = 1
        => opened[i].file # <<>>

(***************************************************************************)
(* C23: whenever Open returns no file, the error it returns is not nil and *)
(* holds one lookup failure for every registered root, for every location  *)
(* and every set of roots.                                                 *)
(***************************************************************************)
C23_NoFileGivesAnError ==
    \A i \in DOMAIN opened :
        opened[i].file = <<>>
        => /\ opened[i].err # <<>>
           /\ Len(opened[i].err) = Cardinality(DOMAIN localFS)

(***************************************************************************)
(* C24: Open tries the local roots in the order AddLocalFS registered      *)
(* them: the file it returns for a relative location is the one of the     *)
(* earliest registered root that holds the location, and two Open calls    *)
(* with the same location return the same file.                            *)
(***************************************************************************)
\* the position of the root k in the order of registration
RegisteredAt(k) == CHOOSE p \in DOMAIN registered : registered[p] = k
C24_RegistrationOrder ==
    /\ \A i \in DOMAIN opened :
          IsRelative(opened[i].location) /\ opened[i].file # <<>>
          => \A k \in RootsHolding(opened[i].location) :
                RegisteredAt(opened[i].file[1].root) <= RegisteredAt(k)
    /\ \A i, j \in DOMAIN opened :
          opened[i].location = opened[j].location => opened[i].file = opened[j].file

(***************************************************************************)
(* C25: over any series of Open and Index calls the Index of a file is     *)
(* built at most once: the content of a valid file is parsed once, every   *)
(* Index call on the file returns that one Index, and a failed build       *)
(* leaves no Index behind and returns the error.                           *)
(***************************************************************************)
FileIdOf(h) == <<handles[h].localFile.root, handles[h].localFile.file>>
IndexAnswersFromTheCache ==
    indexReturn # <<>> =>
        LET r == indexReturn[1]
        IN  IF handles[r.rf].localFile.data = "valid"
            THEN r.err = <<>> /\ r.idx # <<>> /\ r.idx = handles[r.rf].index
            ELSE r.idx = <<>> /\ r.err # <<>> /\ handles[r.rf].index = <<>>
C25_IndexBuiltAtMostOnce ==
    /\ \A h \in DOMAIN handles :
          handles[h].localFile.data = "valid" => Occurrences(FileIdOf(h), builds) <= 1
    /\ \A h, g \in DOMAIN handles :
          FileIdOf(h) = FileIdOf(g) /\ handles[h].index # <<>> /\ handles[g].index # <<>>
          => handles[h].index = handles[g].index
    /\ IndexAnswersFromTheCache

(***************************************************************************)
(* The converter of OpenAPI 3.0.x documents to 3.1.0.                      *)
(*                                                                         *)
(* A version is the sequence of its characters.  A schema is a record of   *)
(* the fields the conversion reads and writes; Nullable is a *bool: "nil", *)
(* "true" or "false"; Items is <<>> or <<s>> for Items.A.  A media type    *)
(* has the Schema <<>> (nil) or <<s>>.  A path item maps the methods it    *)
(* has an operation for to the operation.  modelErrors is what             *)
(* BuildV3Model returns for the document.                                  *)
(***************************************************************************)
Digits == {"0", "1", "2", "3", "4", "5", "6", "7", "8", "9"}
V3_0_0 == <<"3", ".", "0", ".", "0">>
V3_0_12 == <<"3", ".", "0", ".", "1", "2">>
V3_1_0 == <<"3", ".", "1", ".", "0">>
Versions == {V3_0_0, V3_0_12, V3_1_0, <<"2", ".", "0">>, <<"3", ".", "0">>,
             <<"3", ".", "0", ".", "x">>, <<"3", ".", "0", ".", "1", "x">>}

SchemaOf(type, nullable, format, properties, items) ==
    [Type |-> type, Nullable |-> nullable, Format |-> format, ContentEncoding |-> "",
     ContentMediaType |-> "", Properties |-> properties, Items |-> items]
LeafSchemas ==
    {SchemaOf(t, n, f, <<>>, <<>>) :
        t \in {<<>>, <<"string">>}, n \in {"nil", "true", "false"},
        f \in {"", "binary", "base64"}}
NestedSchemas ==
    {SchemaOf(<<"object">>, n, "", <<l>>, <<>>) : n \in {"nil", "true", "false"}, l \in LeafSchemas}
    \cup {SchemaOf(<<"array">>, n, "", <<>>, <<l>>) : n \in {"nil", "true", "false"}, l \in LeafSchemas}
MediaTypes == {[Schema |-> <<>>]} \cup {[Schema |-> <<l>>] : l \in LeafSchemas}
OperationOf(requestBody, default, codes, parameters) ==
    [RequestBody |-> requestBody, Responses |-> [Default |-> default, Codes |-> codes],
     Parameters |-> parameters]
DocumentOf(version, modelErrors, schemas, paths) ==
    [Version |-> version, modelErrors |-> modelErrors, Schemas |-> schemas,
     Paths |-> paths]
Documents ==
    {DocumentOf(v, e, <<>>, <<>>) : v \in Versions, e \in {<<>>, <<"error">>}}
    \cup {DocumentOf(V3_0_0, <<>>, <<s>>, <<>>) : s \in LeafSchemas \cup NestedSchemas}
    \cup {DocumentOf(V3_0_0, <<>>, <<>>, <<(m :> OperationOf(<<req>>, <<>>, <<<<resp>>>>, <<>>))>>) :
             m \in {"get", "post", "put"}, req \in MediaTypes, resp \in MediaTypes}
    \cup {DocumentOf(V3_0_0, <<>>, <<>>, <<(m :> OperationOf(<<>>, <<d>>, <<>>, <<p>>))>>) :
             m \in {"post", "patch"}, d \in MediaTypes, p \in LeafSchemas}

\* NewConverter(doc)
NewConverter(doc) ==
    /\ converted = <<>>
    /\ document = <<>>
    /\ document' = <<doc>>
    /\ UNCHANGED <<resolverVars, rolodexVars, converted>>

\* regexp.MatchString(`^3\.0\.\d+`, version)
isOpenAPI30x(version) ==
    /\ Len(version) >= 5
    /\ SubSeq(version, 1, 4) = <<"3", ".", "0", ".">>
    /\ version[5] \in Digits

RECURSIVE MarshalSchema(_)
\* a schema after yaml.Marshal and libopenapi.NewDocument: a nullable that
\* is false is not written, so the schema that is read back has none
MarshalSchema(schema) ==
    [schema EXCEPT
        !.Nullable = IF schema.Nullable = "false" THEN "nil" ELSE schema.Nullable,
        !.Properties = [k \in DOMAIN schema.Properties |-> MarshalSchema(schema.Properties[k])],
        !.Items = [k \in DOMAIN schema.Items |-> MarshalSchema(schema.Items[k])]]

MarshalContent(media) ==
    [k \in DOMAIN media |->
        IF media[k].Schema = <<>> THEN media[k]
        ELSE [media[k] EXCEPT !.Schema = <<MarshalSchema(media[k].Schema[1])>>]]

\* a document after yaml.Marshal and libopenapi.NewDocument
MarshalDocument(doc) ==
    [doc EXCEPT
        !.Schemas = [k \in DOMAIN doc.Schemas |-> MarshalSchema(doc.Schemas[k])],
        !.Paths = [k \in DOMAIN doc.Paths |->
                     [m \in DOMAIN doc.Paths[k] |->
                        LET op == doc.Paths[k][m]
                        IN  [RequestBody |-> MarshalContent(op.RequestBody),
                             Responses |->
                                [Default |-> MarshalContent(op.Responses.Default),
                                 Codes |-> [c \in DOMAIN op.Responses.Codes |->
                                              MarshalContent(op.Responses.Codes[c])]],
                             Parameters |-> [q \in DOMAIN op.Parameters |->
                                               MarshalSchema(op.Parameters[q])]]]]]

\* deepCopyDocument: the model of the document, written and read again
deepCopyDocument(doc) == MarshalDocument(doc)

\* the nullable step of a schema that keeps the flag it has read
convertNullableKeepingTheFlag(schema) ==
    IF schema.Nullable = "true"
    THEN [schema EXCEPT !.Type = Append(@, "null")]
    ELSE schema

\* "if schema.Nullable != nil && *schema.Nullable == true"
convertNullable(schema) ==
    IF schema.Nullable = "true"
    THEN [schema EXCEPT !.Type = Append(@, "null"), !.Nullable = "nil"]
    ELSE schema

RECURSIVE convertSchema(_)
\* convertSchema: the schema as the call leaves it
convertSchema(schema) ==
    LET nullable == convertNullable(schema)
        upload ==
            IF nullable.Type = <<"string">> /\ nullable.Format \in {"base64", "byte"}
            THEN [nullable EXCEPT !.ContentEncoding = "base64", !.Format = ""]
            ELSE IF nullable.Type = <<"string">> /\ nullable.Format = "binary"
            THEN [nullable EXCEPT !.ContentMediaType = "application/octet-stream",
                                  !.Format = ""]
            ELSE nullable
    IN  [upload EXCEPT
            !.Properties = [k \in DOMAIN upload.Properties |-> convertSchema(upload.Properties[k])],
            !.Items = [k \in DOMAIN upload.Items |-> convertSchema(upload.Items[k])]]

\* convertMediaType: the media type as the call leaves it
convertMediaType(mediaType) ==
    IF mediaType.Schema # <<>> /\ mediaType.Schema[1].Format = "binary"
    THEN [mediaType EXCEPT !.Schema = <<>>]
    ELSE IF mediaType.Schema # <<>>
    THEN [mediaType EXCEPT !.Schema = <<convertSchema(mediaType.Schema[1])>>]
    ELSE mediaType

\* a Content map as its media types leave convertMediaType
convertContent(media) == [k \in DOMAIN media |-> convertMediaType(media[k])]

\* convertPathItemSchemas: request body, default response, response codes
\* and parameters of every operation of the path item
convertPathItemSchemas(pathItem) ==
    [m \in DOMAIN pathItem |->
        LET op == pathItem[m]
        IN  OperationOf(convertContent(op.RequestBody),
                        convertContent(op.Responses.Default),
                        [c \in DOMAIN op.Responses.Codes |-> convertContent(op.Responses.Codes[c])],
                        [p \in DOMAIN op.Parameters |-> convertSchema(op.Parameters[p])])]

\* convertToV31 with convertSchemas
convertToV31(doc) ==
    [Version |-> V3_1_0,
     JsonSchemaDialect |-> "https://spec.openapis.org/oas/3.1/dialect/base",
     modelErrors |-> doc.modelErrors,
     Schemas |-> [k \in DOMAIN doc.Schemas |-> convertSchema(doc.Schemas[k])],
     Paths |-> [k \in DOMAIN doc.Paths |-> convertPathItemSchemas(doc.Paths[k])],
     Webhooks |-> <<>>]

\* what ConvertV3ToV31 returns for c.document: a document <<d>> or nil <<>>,
\* and the message of the error in pieces, <<>> for a nil error
ConvertV3ToV31Of(c) ==
    IF c = <<>>
    THEN [doc |-> <<>>, err |-> <<"document is nil">>]
    ELSE IF ~isOpenAPI30x(c[1].Version)
    THEN [doc |-> <<>>,
          err |-> <<"document version ">> \o c[1].Version \o <<" is not OpenAPI 3.0.x">>]
    ELSE IF Len(c[1].modelErrors) > 0
    THEN [doc |-> <<>>, err |-> <<"failed to build V3 model: ">> \o c[1].modelErrors]
    ELSE [doc |-> <<MarshalDocument(convertToV31(deepCopyDocument(c[1])))>>, err |-> <<>>]

ConvertV3ToV31 ==
    /\ converted = <<>>
    /\ converted' = <<ConvertV3ToV31Of(document)>>
    /\ UNCHANGED <<resolverVars, rolodexVars, document>>

ConvertNext ==
    \/ \E doc \in Documents : NewConverter(doc)
    \/ ConvertV3ToV31

ConvertSpec == RolodexInit /\ [][ConvertNext]_vars

(***************************************************************************)
(* C26: ConvertV3ToV31 succeeds exactly when the version of the document   *)
(* is 3.0.x, x a number: it then returns a document of version 3.1.0 and a *)
(* nil error, and for every other version nil and an error whose message   *)
(* contains "is not OpenAPI 3.0.x".                                        *)
(***************************************************************************)
\* 3.0.x, x a number
IsVersion30x(v) ==
    /\ Len(v) >= 5
    /\ SubSeq(v, 1, 4) = <<"3", ".", "0", ".">>
    /\ \A k \in 5..Len(v) : v[k] \in Digits
Succeeded(r) == r.doc # <<>> /\ r.err = <<>> /\ r.doc[1].Version = V3_1_0
RefusedVersion(r) == r.doc = <<>> /\ InSeq(" is not OpenAPI 3.0.x", r.err)
C26_SucceedsExactlyOn30x ==
    converted # <<>> /\ document # <<>>
    => IF IsVersion30x(document[1].Version)
       THEN Succeeded(converted[1])
       ELSE RefusedVersion(converted[1])

(***************************************************************************)
(* C27: after ConvertV3ToV31 no schema of the components, none of their    *)
(* properties and no array items has Nullable set; "null" is appended to   *)
(* the types of a schema that had nullable: true, and the types of every   *)
(* other schema are as they were.                                          *)
(***************************************************************************)
RECURSIVE NullableGone(_, _)
\* was is a schema of the source document, now the same schema of the result
NullableGone(was, now) ==
    /\ now.Nullable = "nil"
    /\ now.Type = IF was.Nullable = "true" THEN Append(was.Type, "null") ELSE was.Type
    /\ \A k \in DOMAIN was.Properties : NullableGone(was.Properties[k], now.Properties[k])
    /\ \A k \in DOMAIN was.Items : NullableGone(was.Items[k], now.Items[k])
C27_NullableIsConverted ==
    converted # <<>> /\ converted[1].doc # <<>>
    => \A k \in DOMAIN document[1].Schemas :
          NullableGone(document[1].Schemas[k], converted[1].doc[1].Schemas[k])

\* a document was converted whose schema has nullable: false and holds a
\* property or items with nullable: true
C27_Witness ==
    /\ converted # <<>> /\ converted[1].doc # <<>>
    /\ \E k \in DOMAIN document[1].Schemas :
          LET was == document[1].Schemas[k]
              now == converted[1].doc[1].Schemas[k]
          IN  /\ was.Nullable = "false"
              /\ now.Nullable = "nil"
              /\ \E j \in DOMAIN was.Properties :
                    /\ was.Properties[j].Nullable = "true"
                    /\ now.Properties[j].Type = Append(was.Properties[j].Type, "null")

(***************************************************************************)
(* C28: ConvertV3ToV31 removes the schema of a media type exactly when the *)
(* media type is one of a request body and the schema has the format       *)
(* binary; the schema of every other media type is kept: the one of a      *)
(* base64 request body with contentEncoding "base64" and no format, and    *)
(* the binary one of a response as a schema.                               *)
(***************************************************************************)
HasBinarySchema(mediaType) == mediaType.Schema # <<>> /\ mediaType.Schema[1].Format = "binary"
\* was is a Content of the source document, now the same Content of the result
RequestContentConverted(was, now) ==
    \A k \in DOMAIN was :
        /\ now[k].Schema = <<>> <=> (was[k].Schema = <<>> \/ HasBinarySchema(was[k]))
        /\ was[k].Schema # <<>> /\ was[k].Schema[1].Type = <<"string">>
              /\ was[k].Schema[1].Format = "base64"
           => /\ now[k].Schema # <<>>
              /\ now[k].Schema[1].ContentEncoding = "base64"
              /\ now[k].Schema[1].Format = ""
ResponseContentKept(was, now) ==
    \A k \in DOMAIN was : now[k].Schema = <<>> <=> was[k].Schema = <<>>
OperationConverted(was, now) ==
    /\ RequestContentConverted(was.RequestBody, now.RequestBody)
    /\ ResponseContentKept(was.Responses.Default, now.Responses.Default)
    /\ \A c \in DOMAIN was.Responses.Codes :
          ResponseContentKept(was.Responses.Codes[c], now.Responses.Codes[c])
C28_OnlyBinaryRequestSchemasGo ==
    converted # <<>> /\ converted[1].doc # <<>>
    => \A p \in DOMAIN document[1].Paths : \A m \in DOMAIN document[1].Paths[p] :
          OperationConverted(document[1].Paths[p][m], converted[1].doc[1].Paths[p][m])


(***************************************************************************)
(* C29: when a reference is visited, every $ref key that lies anywhere     *)
(* beneath its node, through nested maps and sequences and outside the     *)
(* values of oneOf/anyOf/allOf, has its target among the relatives that    *)
(* extractRelatives returns for the reference, or has a missing-reference  *)
(* error with that key as its Node, wherever the key stands in its map.    *)
(***************************************************************************)
\* the node at index i of node is the value of a polymorphic keyword
IsPolyValueAt(node, i) == i % 2 = 1 /\ IsPolyKeyAt(node, i - 1)

RECURSIVE RefKeysBeneath(_)
\* the places <<map, i>> of the $ref keys beneath node
RefKeysBeneath(node) ==
    UNION {IF IsRefKeyAt(node, i) /\ i + 1 < Len(content[node])
           THEN {<<node, i>>}
           ELSE IF /\ IsNodeMap(idx.Kind, ContentAt(node, i))
                      \/ IsNodeArray(idx.Kind, ContentAt(node, i))
                   /\ ~IsPolyValueAt(node, i)
           THEN RefKeysBeneath(ContentAt(node, i))
           ELSE {} : i \in 0..(Len(content[node]) - 1)}

\* the Reference of the index that the $ref at place p denotes for ref
LocatedAt(ref, p) ==
    SearchIndexForReferenceByReference(
        LocateGeneric(idx.FullDefinition[ref],
                      idx.Value[ContentAt(p[1], p[2] + 1)]).FullDefinition)

IsRelativeOrMissing(ref, p, relatives) ==
    IF LocatedAt(ref, p) # Nil
    THEN InSeq(LocatedAt(ref, p), relatives)
    ELSE \E e \in 1..Len(resolvingErrors) :
            /\ resolvingErrors[e].Node = ContentAt(p[1], p[2])
            /\ resolvingErrors[e].ErrorRef = "cannot resolve reference, it's missing"

C29_EveryRefKeyIsExtracted ==
    At("VisitReference", "afterExtract") =>
        \A p \in RefKeysBeneath(idx.Node[Top.ref]) : IsRelativeOrMissing(Top.ref, p, ret)


(***************************************************************************)
(* C30: two runs over the same document, with the same toggles, call       *)
(* VisitReference on the same References in the same order and record the  *)
(* same loop points in the same buckets: the mapped references come in     *)
(* the order of their discovery, then the component schemas that are not   *)
(* mapped, and the children of a reference in the order of the document.   *)
(***************************************************************************)
LoopPointsOf(circs) == [k \in 1..Len(circs) |-> circs[k].LoopPoint]

SameToggles == firstRun[1].toggles = toggleVars

C30_RunsVisitInTheSameOrder ==
    SecondRunDone /\ SameToggles =>
        /\ firstRun[1].visits = visits
        /\ LoopPointsOf(firstRun[1].circularReferences) = LoopPointsOf(circularReferences)
        /\ LoopPointsOf(firstRun[1].ignoredArrayReferences)
              = LoopPointsOf(ignoredArrayReferences)
        /\ LoopPointsOf(firstRun[1].ignoredPolyReferences)
              = LoopPointsOf(ignoredPolyReferences)


(***************************************************************************)
(* C31: a CircularReferenceResult that is in a bucket keeps every field    *)
(* for the rest of the run; its Journey stays the sequence of References   *)
(* it was created with, whatever the traversal visits afterwards.          *)
(***************************************************************************)
\* the results of the bucket are in the next state what they are now
KeepsItsResults(circs, arrs, circsNext, arrsNext) ==
    Len(circsNext) >= Len(circs) =>
        \A k \in 1..Len(circs) :
            /\ circsNext[k] = circs[k]
            /\ Elems(arrsNext, circsNext[k].Journey) = Elems(arrs, circs[k].Journey)

C31_Step ==
    /\ KeepsItsResults(circularReferences, arrays, circularReferences', arrays')
    /\ KeepsItsResults(ignoredPolyReferences, arrays, ignoredPolyReferences', arrays')
    /\ KeepsItsResults(ignoredArrayReferences, arrays, ignoredArrayReferences', arrays')

C31_ResultsAreNeverMutated == [][C31_Step]_vars


(***************************************************************************)
(* The getters of the circular references.                                 *)
(***************************************************************************)
\* Resolver.GetPolymorphicCircularErrors()
GetPolymorphicCircularErrors ==
    SelectSeq(circularReferences,
              LAMBDA c : c.IsInfiniteLoop /\ c.IsPolymorphicResult)

\* Resolver.GetNonPolymorphicCircularErrors()
GetNonPolymorphicCircularErrors ==
    SelectSeq(circularReferences,
              LAMBDA c : c.IsInfiniteLoop /\ ~c.IsPolymorphicResult)

(***************************************************************************)
(* C32: every result of the circular references that has                   *)
(* IsPolymorphicResult set is among what GetPolymorphicCircularErrors()    *)
(* returns, and none of them is among what                                 *)
(* GetNonPolymorphicCircularErrors() returns.                              *)
(***************************************************************************)
C32_PolymorphicGetterReturnsThemAll ==
    \A k \in 1..Len(circularReferences) :
        circularReferences[k].IsPolymorphicResult =>
            /\ InSeq(circularReferences[k], GetPolymorphicCircularErrors)
            /\ ~InSeq(circularReferences[k], GetNonPolymorphicCircularErrors)


(***************************************************************************)
(* rolodexFile.Index() called by concurrent callers on the rolodexFiles    *)
(* that Open returned.  The method takes no lock: the test of rf.index,    *)
(* the parsing of the content and the assignment to rf.index are steps of  *)
(* their own, and the steps of different calls interleave.                 *)
(***************************************************************************)
\* a caller starts rf.Index(config) on the h-th rolodexFile
IndexBegin(h) ==
    /\ rolodexPc = "idle"
    /\ Len(indexCalls) < MaxIndexCalls
    /\ indexCalls' = Append(indexCalls, [rf |-> h, pc |-> "check", built |-> FALSE,
                                         idx |-> <<>>, err |-> <<>>])
    /\ UNCHANGED <<resolverVars, convertVars, localFS, remoteFS, indexed, indexingCompleted,
                   totalToIndex, caughtErrors, indexBuildQueue, tasks, wg, rolodexPc,
                   indexings, returned, registered, opened, handles, builds,
                   indexReturn>>

\* "if rf.index != nil { return rf.index, nil }"
IndexCheck(c) ==
    /\ indexCalls[c].pc = "check"
    /\ LET rf == handles[indexCalls[c].rf]
       IN  indexCalls' =
              IF rf.index # <<>>
              THEN [indexCalls EXCEPT ![c].pc = "done", ![c].idx = rf.index]
              ELSE [indexCalls EXCEPT ![c].pc = "parse"]
    /\ UNCHANGED <<resolverVars, convertVars, localFS, remoteFS, indexed, indexingCompleted,
                   totalToIndex, caughtErrors, indexBuildQueue, tasks, wg, rolodexPc,
                   indexings, returned, registered, opened, handles, builds,
                   indexReturn>>

\* datamodel.ExtractSpecInfo(content) and NewSpecIndexWithConfig: the error
\* is returned, or a new Index is built
IndexParse(c) ==
    /\ indexCalls[c].pc = "parse"
    /\ LET rf == handles[indexCalls[c].rf]
           id == <<rf.localFile.root, rf.localFile.file>>
       IN  /\ builds' = Append(builds, id)
           /\ indexCalls' =
                 IF rf.localFile.data = "valid"
                 THEN [indexCalls EXCEPT ![c].pc = "store", ![c].built = TRUE,
                                         ![c].idx = <<id, Len(builds')>>]
                 ELSE [indexCalls EXCEPT ![c].pc = "done", ![c].err = <<"error", id>>]
    /\ UNCHANGED <<resolverVars, convertVars, localFS, remoteFS, indexed, indexingCompleted,
                   totalToIndex, caughtErrors, indexBuildQueue, tasks, wg, rolodexPc,
                   indexings, returned, registered, opened, handles, indexReturn>>

\* a store that keeps the Index another call has cached meanwhile
IndexStoreOnce(c) ==
    /\ indexCalls[c].pc = "store"
    /\ LET h == indexCalls[c].rf
       IN  IF handles[h].index # <<>>
           THEN /\ indexCalls' = [indexCalls EXCEPT ![c].pc = "done",
                                                    ![c].idx = handles[h].index]
                /\ UNCHANGED handles
           ELSE /\ handles' = [handles EXCEPT ![h].index = indexCalls[c].idx]
                /\ indexCalls' = [indexCalls EXCEPT ![c].pc = "done"]
    /\ UNCHANGED <<resolverVars, convertVars, localFS, remoteFS, indexed, indexingCompleted,
                   totalToIndex, caughtErrors, indexBuildQueue, tasks, wg, rolodexPc,
                   indexings, returned, registered, opened, builds, indexReturn>>

\* "rf.index = index; return index, nil"
IndexStore(c) ==
    /\ indexCalls[c].pc = "store"
    /\ handles' = [handles EXCEPT ![indexCalls[c].rf].index = indexCalls[c].idx]
    /\ indexCalls' = [indexCalls EXCEPT ![c].pc = "done"]
    /\ UNCHANGED <<resolverVars, convertVars, localFS, remoteFS, indexed, indexingCompleted,
                   totalToIndex, caughtErrors, indexBuildQueue, tasks, wg, rolodexPc,
                   indexings, returned, registered, opened, builds, indexReturn>>

IndexCallStep(c) == IndexCheck(c) \/ IndexParse(c) \/ IndexStore(c)

ConcurrentIndexNext ==
    \/ \E baseDir \in BaseDirs, fileSystem \in OpenFSs : AddLocalFS(baseDir, fileSystem)
    \/ \E location \in Locations : Open(location)
    \/ \E h \in DOMAIN handles : IndexBegin(h)
    \/ \E c \in DOMAIN indexCalls : IndexCallStep(c)

ConcurrentIndexSpec == RolodexInit /\ [][ConcurrentIndexNext]_vars

(***************************************************************************)
(* C33: Index requests that run concurrently on one rolodexFile are not    *)
(* deduplicated.  Every call that found the cache empty builds an Index of *)
(* its own and returns it, so two such calls return different Index        *)
(* objects; the rolodexFile holds the Index of one of them only.           *)
(***************************************************************************)
\* the call is over and has returned an Index that it built itself
ReturnedItsOwn(c) ==
    indexCalls[c].pc = "done" /\ indexCalls[c].built

C33_ConcurrentIndexIsNotDeduplicated ==
    \A c1, c2 \in DOMAIN indexCalls :
        (c1 # c2 /\ indexCalls[c1].rf = indexCalls[c2].rf
                 /\ ReturnedItsOwn(c1) /\ ReturnedItsOwn(c2)) =>
            /\ indexCalls[c1].idx # indexCalls[c2].idx
            /\ handles[indexCalls[c1].rf].index \in {indexCalls[c1].idx, indexCalls[c2].idx}
            /\ Occurrences(FileIdOf(indexCalls[c1].rf), builds) >= 2

\* two calls on one rolodexFile have both built an Index and returned
C33_Witness ==
    \E c1, c2 \in DOMAIN indexCalls :
        /\ c1 # c2 /\ indexCalls[c1].rf = indexCalls[c2].rf
        /\ ReturnedItsOwn(c1) /\ ReturnedItsOwn(c2)
        /\ indexCalls[c1].idx # indexCalls[c2].idx


(***************************************************************************)
(* C34: for a referring reference and a raw $ref string, the generic       *)
(* locator and the locators of the two polymorphic forms give the same     *)
(* canonical location: for a fragment #/X under a referrer F#/Y it is      *)
(* F#/X, and an absolute path or a URL with a fragment is kept as it is.   *)
(***************************************************************************)
\* the raw $ref strings the locators are compared on
LocatorRaws ==
    {<<HashSlash, "X">>, <<Slash, "f2", HashSlash, "X">>,
     <<HttpHost, Slash, "f2", HashSlash, "X">>, <<"f2", HashSlash, "X">>}

IsFragment(raw) == HasPrefixHash(raw)
IsAbsoluteWithFragment(raw) ==
    (IsAbs(raw) \/ HasPrefixHttp(raw)) /\ Len(SplitOn(raw, HashSlash)) = 2

LocatorsAgree(refFullDef, raw) ==
    LET generic == LocateGeneric(refFullDef, raw).FullDefinition
    IN  /\ LocatePolyObject(refFullDef, raw) = generic
        /\ LocatePolyArray(refFullDef, raw) = generic
        /\ IsFragment(raw) => generic = SplitOn(refFullDef, HashSlash)[1] \o raw
        /\ IsAbsoluteWithFragment(raw) => generic = raw

C34_LocatorsAgree ==
    \A r \in AllRefs, raw \in LocatorRaws : LocatorsAgree(idx.FullDefinition[r], raw)


(***************************************************************************)
(* C35: over the circular references, the ignored polymorphic references   *)
(* and the ignored array references together, no two results of one index  *)
(* have the same LoopPoint: a reference that is marked Circular gives no   *)
(* second result, neither to the generic nor to the polymorphic detection. *)
(***************************************************************************)
C35_OneResultPerLoopPoint ==
    \A j, k \in 1..Len(AllResults) :
        AllResults[j].LoopPoint = AllResults[k].LoopPoint => j = k

\* a polymorphic branch leads back to a reference of the journey that has its
\* result already, next to a result of the generic detection
C35_Witness ==
    /\ At("extractRelatives", "loop") /\ Top.i < Len(content[Top.node])
    /\ IsPolyKeyAt(Top.node, Top.i)
    /\ \E k \in 1..Len(AllResults) :
          /\ Circular[AllResults[k].LoopPoint]
          /\ JourneyIndex(Top.journey, idx.FullDefinition[AllResults[k].LoopPoint]) >= 0
    /\ Len(AllResults) >= 2
    /\ PolyResults # <<>> /\ GenericResults # <<>>


(***************************************************************************)
(* C36: the flags of a Reference are monotone and consistent: no step of   *)
(* the resolver resets Seen, Resolved or Circular on the index it works    *)
(* on, a Resolved reference is Seen, Circular is only set on a reference   *)
(* of the journey of the activation that sets it, and when Resolve or      *)
(* CheckForCircularReferences returns, every reference visitIndex loops    *)
(* over (the mapped references and the component schemas) is Seen and      *)
(* Resolved.                                                               *)
(***************************************************************************)
\* the references visitIndex starts a journey from
ListedRefs == {idx.mapped[k] : k \in 1..Len(idx.mapped)} \cup idx.schemas

\* the step works on the index of the step before
SameIndex == firstRun' = firstRun

C36_Step ==
    /\ SameIndex => \A r \in AllRefs : /\ (Seen[r] => Seen'[r])
                                       /\ (Resolved[r] => Resolved'[r])
                                       /\ (Circular[r] => Circular'[r])
    /\ \A r \in AllRefs : (Resolved[r] => Seen[r]) /\ (Resolved'[r] => Seen'[r])
    /\ \A r \in AllRefs : SameIndex /\ ~Circular[r] /\ Circular'[r] =>
          InSeq(r, Elems(arrays, Top.journey))
    /\ status = "running" /\ status' = "idle" =>
          \A r \in ListedRefs : Seen'[r] /\ Resolved'[r]

C36_FlagsAreMonotone == [][C36_Step]_vars

\* the second run on one index has returned: a reference is Circular, one is
\* not, and all of those the index lists are Seen and Resolved
C36_Witness ==
    /\ status = "idle" /\ Len(calls) = 2 /\ firstRun = <<>>
    /\ \E r \in ListedRefs : Circular[r]
    /\ \E r \in ListedRefs : ~Circular[r]
    /\ \A r \in ListedRefs : Seen[r] /\ Resolved[r]


(***************************************************************************)
(* C37: every recorded CircularReferenceResult is well formed: Start and   *)
(* LoopPoint are one reference, Journey ends with it, and LoopIndex is the *)
(* first position (from 0) of Journey that holds it, which is before the   *)
(* last one.                                                               *)
(***************************************************************************)
\* the first position (from 0) of js that holds x, -1 if none does
FirstIndexOf(js, x) ==
    IF InSeq(x, js)
    THEN (CHOOSE i \in 1..Len(js) : js[i] = x /\ \A j \in 1..(i - 1) : js[j] # x) - 1
    ELSE 0 - 1

EndsAtLoopPoint(c) ==
    LET js == Elems(arrays, c.Journey)
    IN  Len(js) > 0 /\ js[Len(js)] = c.LoopPoint

LoopIndexIsFirst(c) ==
    LET js == Elems(arrays, c.Journey)
    IN  /\ c.LoopIndex = FirstIndexOf(js, c.LoopPoint)
        /\ 0 <= c.LoopIndex /\ c.LoopIndex < Len(js) - 1

WellFormed(c) ==
    /\ c.Start = c.LoopPoint
    /\ EndsAtLoopPoint(c)
    /\ LoopIndexIsFirst(c)

C37_ResultsAreWellFormed ==
    \A k \in 1..Len(AllResults) : WellFormed(AllResults[k])


(***************************************************************************)
(* C38: whenever Open returns a file, the error it returns is nil, also    *)
(* when roots tried before the one that served the location failed to.     *)
(***************************************************************************)
C38_AFileComesWithoutError ==
    \A i \in DOMAIN opened : opened[i].file # <<>> => opened[i].err = <<>>


(***************************************************************************)
(* C39: a second Resolve() or CheckForCircularReferences() on one Resolver *)
(* returns the error sequence the first call returned.  Both return        *)
(* Resolver.resolvingErrors, so this says that no step of a run that is    *)
(* not the first of its Resolver changes resolvingErrors, and that the run *)
(* returns them.                                                           *)
(***************************************************************************)
\* a run is under way that is not the first one of its Resolver
LaterRun == status = "running" /\ counters.indexesVisited >= 2

C39_Step ==
    LaterRun => /\ resolvingErrors' = resolvingErrors
                /\ status' = "idle" => ret' = resolvingErrors

C39_SecondCallReturnsTheSameErrors == [][C39_Step]_vars

====
